---- MODULE Spec2Model ----
(***************************************************************************)
(* Model of the eERC SDK: the EERC class (src/src/EERC.ts), its amount,    *)
(* mode and key checks, the witnesses and contract calls it assembles, and *)
(* the balance reconstruction on the contract's (EGCT, amountPCTs,         *)
(* balancePCT) triple.                                                     *)
(*                                                                         *)
(* The curve, the Poseidon cipher and the contract are not part of the     *)
(* sources; they are modelled from the specification on a scaled-down      *)
(* group: the prime-order subgroup is Z_SUB_GROUP_ORDER with Base8 = 1,    *)
(* a point is the pair <<k, k + 1>> for the group element k # 0, <<0, 1>>  *)
(* is the identity and <<0, 0>> is the value the registrar returns for an  *)
(* address that never registered (it is not a point of the curve).         *)
(***************************************************************************)
EXTENDS Integers, Sequences, FiniteSets, TLC

\* ------------------------------------------------------------------ bounds

\* largest amount argument an invocation is tried with
MaxAmount == 2
\* largest plaintext balance a holder's ledger entry carries
MaxSupply == 3
\* number of draws the randomness source hands out in one behaviour
MaxDraws == 7
\* number of transactions the ledger accepts in one behaviour
MaxTx == 3
\* number of privateMint invocations in one sequence of mints
MaxMints == 3
\* number of characters of the longest string the codec is applied to
MaxLen == 3
\* number of chunks of the longest chunk array the codec is applied to
MaxChunks == 2
\* number of the last block the chain reaches in one behaviour
MaxBlock == 4
\* number of logs the contract emits in one behaviour
MaxLogs == 3
\* the changes the application and the user make to a mounted component
MaxChanges == 3

\* --------------------------------------------------------- scaled constants

\* order of the subgroup generated by Base8 (scaled down; it stays above
\* every balance so that v * Base8 determines v)
SUB_GROUP_ORDER == MaxSupply + 2

\* distance between two keystream values (above every plaintext amount)
KeyStreamStride == 4 * SUB_GROUP_ORDER

\* the field the PCT ciphertext elements live in (scaled down)
SNARK_FIELD_SIZE ==
    KeyStreamStride * (2 + SUB_GROUP_ORDER * 4 * (MaxDraws + 6 * MaxTx + 4 * MaxMints + 4))

\* ------------------------------------------------------------------- curve

Base8 == <<1, 2>>
Identity == <<0, 1>>
UnsetKey == <<0, 0>>

\* the point of the group element k
PointOf(k) == IF k % SUB_GROUP_ORDER = 0
              THEN Identity
              ELSE <<k % SUB_GROUP_ORDER, (k % SUB_GROUP_ORDER) + 1>>

\* the group element of a point of the curve
ScalarOf(P) == P[1]

\* <<0, 0>> does not satisfy the curve equation; every other pair used here does
onCurve(P) == P # UnsetKey

\* the addition law maps every sum with <<0, 0>> to <<0, 0>>
mulWithScalar(P, k) ==
    IF P = UnsetKey THEN UnsetKey ELSE PointOf(ScalarOf(P) * (k % SUB_GROUP_ORDER))

addPoints(P, Q) ==
    IF P = UnsetKey \/ Q = UnsetKey THEN UnsetKey ELSE PointOf(ScalarOf(P) + ScalarOf(Q))

subPoints(P, Q) ==
    IF P = UnsetKey \/ Q = UnsetKey THEN UnsetKey
    ELSE PointOf(ScalarOf(P) + SUB_GROUP_ORDER - ScalarOf(Q))

generatePublicKey(sk) == mulWithScalar(Base8, sk)

\* ElGamal encryption of the amount v under pk with randomness r
encryptMessage(pk, v, r) ==
    [ c1 |-> mulWithScalar(Base8, r),
      c2 |-> addPoints(mulWithScalar(Base8, v % SUB_GROUP_ORDER), mulWithScalar(pk, r)) ]

elGamalDecryption(sk, c) == subPoints(c.c2, mulWithScalar(c.c1, sk))

\* ---------------------------------------------------------- Poseidon cipher

\* the i-th keystream element for the shared point K and the nonce: an
\* injective stand-in for the Poseidon sponge
KeyStream(K, nonce, i) ==
    KeyStreamStride * (1 + ScalarOf(K) + SUB_GROUP_ORDER * (i + 4 * nonce))

\* cipher[i] = m[i] + keystream[i] in the field, the input padded with zeros
poseidonEncrypt(inputs, K, nonce) ==
    [ i \in 1..4 |->
        ((IF i <= Len(inputs) THEN inputs[i] ELSE 0) + KeyStream(K, nonce, i - 1))
            % SNARK_FIELD_SIZE ]

\* PCT of inputs under publicKey with the draw d = [random, nonce]
processPoseidonEncryption(inputs, publicKey, d) ==
    [ cipher |-> poseidonEncrypt(inputs, mulWithScalar(publicKey, d.random), d.nonce),
      nonce |-> d.nonce,
      authKey |-> mulWithScalar(Base8, d.random),
      encryptionRandom |-> d.random ]

processPoseidonDecryption(privateKey, authKey, cipher, nonce, length) ==
    [ i \in 1..length |->
        (cipher[i] + SNARK_FIELD_SIZE
           - (KeyStream(mulWithScalar(authKey, privateKey), nonce, i - 1) % SNARK_FIELD_SIZE))
            % SNARK_FIELD_SIZE ]

\* poseidon5 as a collision-free hash: the tuple of its inputs
poseidon5(inputs) == <<"poseidon5">> \o inputs

\* the 7-field on-wire form: cipher[0..4] || authKey.x || authKey.y || nonce
PCT7(pct) == pct.cipher \o pct.authKey \o <<pct.nonce>>

ZeroPCT == <<0, 0, 0, 0, 0, 0, 0>>

\* ------------------------------------------------------- message metadata

\* scaled-down codec parameters: a byte is a digit below ByteBase, a chunk
\* holds ChunkBytes bytes (250 bits in the source)
ByteBase == 4
ChunkBytes == 2

chunkSize == ByteBase ^ ChunkBytes

RECURSIVE bytesToInt(_)
\* BigInt(`0x${hex}`): the bytes read as one big-endian number
bytesToInt(b) == IF b = <<>> THEN 0
                 ELSE bytesToInt(SubSeq(b, 1, Len(b) - 1)) * ByteBase + b[Len(b)]

RECURSIVE splitRemaining(_)
splitRemaining(remaining) ==
    IF remaining > 0
    THEN <<remaining % chunkSize>> \o splitRemaining(remaining \div chunkSize)
    ELSE <<>>

splitIntoBigIntChunks(decimal) ==
    IF decimal = 0 THEN <<0>> ELSE splitRemaining(decimal)

\* a string is a sequence of characters 0..3: U+0000, two characters of one
\* byte, and U+FFFD, whose encoding has more than one byte
NUL == 0
ReplacementChar == 3
LeadByte == 3
Chars == 0..ReplacementChar

\* Buffer.from(s, "utf8"): the UTF-8 bytes of a string
RECURSIVE utf8Encode(_)
utf8Encode(s) ==
    IF s = <<>> THEN <<>>
    ELSE (IF s[1] = ReplacementChar THEN <<LeadByte, LeadByte>> ELSE <<s[1]>>)
            \o utf8Encode(Tail(s))

\* buf.toString("utf8"): a well-formed sequence is its character, a lead
\* byte without its continuation is replaced by U+FFFD
RECURSIVE utf8Decode(_)
utf8Decode(b) ==
    IF b = <<>> THEN <<>>
    ELSE IF b[1] # LeadByte THEN <<b[1]>> \o utf8Decode(Tail(b))
    ELSE IF Len(b) >= 2 /\ b[2] = LeadByte
    THEN <<ReplacementChar>> \o utf8Decode(SubSeq(b, 3, Len(b)))
    ELSE <<ReplacementChar>> \o utf8Decode(Tail(b))

\* Buffer.from(decimal.toString(16) padded to whole bytes, "hex")
RECURSIVE intToBytes(_)
intToBytes(decimal) ==
    IF decimal = 0 THEN <<>>
    ELSE intToBytes(decimal \div ByteBase) \o <<decimal % ByteBase>>

\* .replace(/\u0000/g, ""): every U+0000 is removed
removeNulls(str) == SelectSeq(str, LAMBDA c : c # NUL)

RECURSIVE combineFromBigIntChunks(_)
combineFromBigIntChunks(chunks) ==
    IF chunks = <<>> THEN 0
    ELSE chunks[1] + chunkSize * combineFromBigIntChunks(Tail(chunks))

\* str2int(s)[0]: the chunks of the message, least significant first
str2int(s) ==
    IF s = <<>> THEN <<0>> ELSE splitIntoBigIntChunks(bytesToInt(utf8Encode(s)))

int2str(input) ==
    IF input = <<0>> THEN <<>>
    ELSE LET decimal == combineFromBigIntChunks(input)
         IN  IF decimal = 0 THEN <<>>
             ELSE removeNulls(utf8Decode(intToBytes(decimal)))

\* the encrypted message as its 32-byte words:
\* length || nonce || authKey[0] || authKey[1] || cipher words
encryptMetadata(publicKey, message, d) ==
    LET chunks == str2int(message)
        pct == processPoseidonEncryption(chunks, publicKey, d)
    IN  <<Len(chunks), pct.nonce, pct.authKey[1], pct.authKey[2]>> \o pct.cipher

\* the words are read where encryptMetadata wrote them: 64 hex digits each
decryptMetadata(privateKey, encryptedMessage) ==
    LET length == encryptedMessage[1]
        nonce == encryptedMessage[2]
        authKey == <<encryptedMessage[3], encryptedMessage[4]>>
        ciphertext == SubSeq(encryptedMessage, 5, Len(encryptedMessage))
    IN  int2str(processPoseidonDecryption(privateKey, authKey, ciphertext, nonce, length))

\* ------------------------------------------------------------- environment

\* the wallet of the instance, a registered user, an address that never
\* registered, the burn user and a string that is no address
ZeroAddress == "0x0"
WalletAddress == "0xa1"
OtherAddress == "0xa2"
UnregisteredAddress == "0xa3"
NotAnAddress == "bad"

BURN_USER == [address |-> "0x1111", publicKey |-> <<0, 1>>]

Addresses == {WalletAddress, OtherAddress, UnregisteredAddress, BURN_USER.address}

isAddress(address) == address \in Addresses

TokenAddress == "0xtoken"
ChainID == 43114

\* the decryption keys of the model and the scalar formatKeyForCurve gives
formatKeyForCurve(key) ==
    CASE key = "k1" -> 2
      [] key = "k2" -> 3
      [] key = "kAuditor" -> 4
      [] OTHER -> 0

KeyOfAddress(address) ==
    CASE address = WalletAddress -> "k1"
      [] address = OtherAddress -> "k2"
      [] OTHER -> ""

\* Registrar.getUserPublicKey: <<0, 0>> for an address that never registered
getUserPublicKey(address) ==
    IF KeyOfAddress(address) = "" THEN UnsetKey
    ELSE generatePublicKey(formatKeyForCurve(KeyOfAddress(address)))

AuditorPublicKey == generatePublicKey(formatKeyForCurve("kAuditor"))

\* what can go wrong outside the SDK in one invocation: the registrar read,
\* a read of the token contract or of the chain, the prover, the simulation
\* or the submission of the transaction
Faults == {"none", "registrar", "contract", "prove", "simulate", "write"}

\* the randomness source: the d-th draw of a behaviour gives a scalar in
\* [1, SUB_GROUP_ORDER) and a nonce never handed out before
Draw(d) == [random |-> 1 + (d % (SUB_GROUP_ORDER - 1)), nonce |-> d + 1]

\* the circuit's relation between the amount and the balance of a witness:
\* the prover yields no proof for an unsatisfied witness
ProverAccepts(input) ==
    CASE input.circuit = "TRANSFER" ->
            /\ input.ValueToTransfer > 0
            /\ input.ValueToTransfer <= input.SenderBalance
            /\ onCurve(input.ReceiverPublicKey)
            /\ onCurve(input.AuditorPublicKey)
      [] input.circuit = "WITHDRAW" ->
            /\ input.ValueToWithdraw > 0
            /\ input.ValueToWithdraw <= input.SenderBalance
            /\ onCurve(input.AuditorPublicKey)
      [] input.circuit = "BURN" ->
            /\ input.ValueToBurn > 0
            /\ input.ValueToBurn <= input.SenderBalance
            /\ onCurve(input.AuditorPublicKey)
      [] input.circuit = "MINT" ->
            /\ onCurve(input.ReceiverPublicKey)
            /\ onCurve(input.AuditorPublicKey)
      [] OTHER -> TRUE

\* -------------------------------------------------------------------- EERC

\* new EERC(client, wallet, contractAddress, registrarAddress, isConverter,
\*          circuitURLs, decryptionKey)
NewEERC(wallet, isConverter, circuitURLs, decryptionKey, strict) ==
    [ wallet |-> wallet,
      curve |-> [strict |-> strict],
      isConverter |-> isConverter,
      circuitURLs |-> circuitURLs,
      decryptionKey |-> decryptionKey,
      publicKey |-> IF decryptionKey # ""
                    THEN generatePublicKey(formatKeyForCurve(decryptionKey))
                    ELSE <<>> ]

Circuits == {"REGISTER", "MINT", "WITHDRAW", "TRANSFER", "BURN"}

NoWitness == [circuit |-> ""]
NoTx == [functionName |-> ""]

\* no metadata returned
NoMetadata ==
    [decryptedMessage |-> <<>>, messageType |-> "", messageFrom |-> "", messageTo |-> ""]

\* an invocation that ended with a thrown error
Fail(error, trace, r) ==
    [error |-> error, trace |-> trace, witness |-> NoWitness, tx |-> NoTx, rng |-> r]

\* an invocation that returned without a contract call
Done(trace, r) ==
    [error |-> "", trace |-> trace, witness |-> NoWitness, tx |-> NoTx, rng |-> r]

\* the optional senderBalance argument: <<>> when it is not passed
NoBalance == <<>>
Truthy(senderBalance) == senderBalance # <<>> /\ senderBalance[1] # 0

\* a mode check that lets every instance through
checkConverterSkipped(self) == ""

\* an auditor test that finds every key set
auditorNotSetNever(auditorPublicKey) == FALSE

\* a receiver test that finds every key registered
receiverNotRegisteredNever(receiverPublicKey) == FALSE

\* a new balance that forgets to subtract the amount
senderNewBalanceUnchanged(decryptedBalance, amount) == decryptedBalance

\* a nullifier that leaves the auditor ciphertext out
mintNullifierOfChainOnly(chainId, auditorCiphertext) == poseidon5(<<chainId>>)

\* a nullifier that hashes the chain id after the ciphertext
mintNullifierChainLast(chainId, auditorCiphertext) == poseidon5(auditorCiphertext \o <<chainId>>)

\* an amount check that lets the amount 0 through
validateAmountAcceptsZero(amount, senderBalance) ==
    IF amount < 0 THEN "Invalid amount!"
    ELSE IF senderBalance # <<>> /\ senderBalance[1] # 0 /\ amount > senderBalance[1]
    THEN "Insufficient balance!"
    ELSE ""

\* if (this.isConverter) throw: privateMint and privateBurn
checkStandalone(self) == IF self.isConverter THEN "Not allowed for converter!" ELSE ""

\* if (!this.isConverter) throw: deposit and withdraw
checkConverter(self) == IF ~self.isConverter THEN "Not allowed for stand alone!" ELSE ""

\* the auditor test of generateTransferProof
auditorNotSet(auditorPublicKey) == auditorPublicKey[1] = 0 /\ auditorPublicKey[2] = 0

\* the receiver test of generateTransferProof
receiverNotRegistered(receiverPublicKey) ==
    receiverPublicKey[1] = 0 /\ receiverPublicKey[2] = 0

\* the plaintext of the sender's new balancePCT
senderNewBalance(decryptedBalance, amount) == decryptedBalance - amount

\* the nullifier of a mint: poseidon5([chainId, ...auditorCiphertext])
mintNullifier(chainId, auditorCiphertext) == poseidon5(<<chainId>> \o auditorCiphertext)

\* a validation that does not compare the amount with the balance
validateAmountIgnoringBalance(amount, senderBalance) ==
    IF amount <= 0 THEN "Invalid amount!" ELSE ""

validateAmount(amount, senderBalance) ==
    IF amount <= 0 THEN "Invalid amount!"
    ELSE IF Truthy(senderBalance) /\ amount > senderBalance[1] THEN "Insufficient balance!"
    ELSE ""

\* fetchPublicKey: the burn user's key is hard-coded, every other key is
\* read from the registrar
fetchPublicKey(to, fault) ==
    IF to = BURN_USER.address
    THEN [ok |-> TRUE, key |-> BURN_USER.publicKey, trace |-> <<>>]
    ELSE IF fault = "registrar"
    THEN [ok |-> FALSE, key |-> UnsetKey, trace |-> <<"getUserPublicKey">>]
    ELSE [ok |-> TRUE, key |-> getUserPublicKey(to), trace |-> <<"getUserPublicKey">>]

\* whether the curve refuses to encrypt under key: the curve of the sources
\* is not given; one that checks its points (strict) refuses <<0, 0>>, one
\* that does not carries <<0, 0>> through its addition law
EncFails(self, key) == self.curve.strict /\ ~onCurve(key)

\* n ciphertexts produced
Encrypts(n) == [i \in 1..n |-> "encrypt"]

\* generateProof: the URLs of the circuit, then the prover
generateProof(self, input, fault) ==
    IF input.circuit \notin self.circuitURLs
    THEN [error |-> "Missing URL", trace |-> <<>>]
    ELSE IF fault = "prove" \/ ~ProverAccepts(input)
    THEN [error |-> "ProverError", trace |-> <<"prove">>]
    ELSE [error |-> "", trace |-> <<"prove">>]

\* a submission that is sent a second time when the wallet refuses it
SendTxResubmitting(input, tx, trace, fault, r) ==
    IF fault = "simulate"
    THEN [Fail("SimulationFailed", trace \o <<"simulate">>, r) EXCEPT !.witness = input]
    ELSE [error |-> "",
          trace |-> trace \o (IF fault = "write" THEN <<"simulate", "write", "write">>
                               ELSE <<"simulate", "write">>),
          witness |-> input, tx |-> tx, rng |-> r]

\* client.simulateContract, then wallet.writeContract
SendTx(input, tx, trace, fault, r) ==
    IF fault = "simulate"
    THEN [Fail("SimulationFailed", trace \o <<"simulate">>, r) EXCEPT !.witness = input]
    ELSE IF fault = "write"
    THEN [Fail("WriteFailed", trace \o <<"simulate", "write">>, r)
            EXCEPT !.witness = input]
    ELSE [error |-> "", trace |-> trace \o <<"simulate", "write">>,
          witness |-> input, tx |-> tx, rng |-> r]

\* a caller that sends the transaction whatever the prover returned
ProveAndSendIgnoringProver(self, input, tx, trace, fault, r) ==
    [error |-> "", trace |-> trace \o <<"prove", "simulate", "write">>,
     witness |-> input, tx |-> tx, rng |-> r]

\* generateProof followed by the two contract calls
ProveAndSend(self, input, tx, trace, fault, r) ==
    LET proof == generateProof(self, input, fault)
    IN  IF proof.error # ""
        THEN [Fail(proof.error, trace \o proof.trace, r) EXCEPT !.witness = input]
        ELSE SendTx(input, tx, trace \o proof.trace, fault, r)

Proof(input) == <<"proof", input.circuit>>

WithMessage(args, message, encryptedMessage) ==
    IF message # <<>> THEN args \o <<encryptedMessage>> ELSE args

\* poseidon3 as a collision-free hash: the tuple of its inputs
poseidon3(inputs) == <<"poseidon3">> \o inputs

\* getPrivateKeyFromSignature(signature) of the message the wallet signs: the
\* signature, and with it the key, is determined by the signing address
getPrivateKeyFromSignature(address) == KeyOfAddress(address)

\* the outcome of a call that may change the fields of the instance
WithSelf(res, self, key) ==
    [ error |-> res.error, trace |-> res.trace, witness |-> res.witness, tx |-> res.tx,
      rng |-> res.rng, self |-> self, key |-> key ]

\* a generateDecryptionKey that stores the key and leaves the public key
generateDecryptionKeyWithoutPublicKey(self, fault, r) ==
    LET key == getPrivateKeyFromSignature(self.wallet)
        keyed == [self EXCEPT !.decryptionKey = key]
    IN  IF self.wallet = ""
        THEN WithSelf(Fail("Missing wallet or client!", <<>>, r), self, "")
        ELSE IF fault = "sign"
        THEN WithSelf(Fail("Failed to generate decryption key!", <<"signMessage">>, r),
                      self, "")
        ELSE WithSelf(Done(<<"signMessage">>, r), keyed, key)

\* generateDecryptionKey: the wallet signs, the key derived from the signature
\* and its public key are stored in the instance
generateDecryptionKey(self, fault, r) ==
    LET key == getPrivateKeyFromSignature(self.wallet)
        keyed == [self EXCEPT !.decryptionKey = key,
                              !.publicKey = generatePublicKey(formatKeyForCurve(key))]
    IN  IF self.wallet = ""
        THEN WithSelf(Fail("Missing wallet or client!", <<>>, r), self, "")
        ELSE IF fault = "sign"
        THEN WithSelf(Fail("Failed to generate decryption key!", <<"signMessage">>, r),
                      self, "")
        ELSE WithSelf(Done(<<"signMessage">>, r), keyed, key)

\* a test that never finds the wallet registered
alreadyRegisteredNever(contractPublicKey) == FALSE

\* the test register makes on the key the registrar holds for the wallet
alreadyRegistered(contractPublicKey) ==
    contractPublicKey[1] # 0 /\ contractPublicKey[2] # 0

\* the isRegistered flag useEERC derives from the registrar's answer
isRegistered(data) == ~(data[1] = 0 /\ data[2] = 0)

\* the answer of useEERC.isAddressRegistered for the key fetchPublicKey gave
isAddressRegistered(data) == ~(data[1] = 0 \/ data[2] = 0)

\* register; contractPublicKey is what the registrar holds for the wallet
register(self, contractPublicKey, fault, r) ==
    LET gen == generateDecryptionKey(self, fault, r)
        key == gen.key
        formatted == formatKeyForCurve(key)
        publicKey == generatePublicKey(formatted)
        rd == fetchPublicKey(self.wallet, fault)
        read == gen.trace \o rd.trace
        done == [gen.self EXCEPT !.decryptionKey = key, !.publicKey = publicKey]
        input == [ circuit |-> "REGISTER",
                   SenderPrivateKey |-> formatted,
                   SenderPublicKey |-> publicKey,
                   SenderAddress |-> self.wallet,
                   ChainID |-> ChainID,
                   RegistrationHash |-> poseidon3(<<ChainID, formatted, self.wallet>>) ]
        tx == [functionName |-> "register", args |-> <<Proof(input)>>]
        sent == ProveAndSend(gen.self, input, tx, read \o <<"getChainId">>, fault, r)
    IN  IF self.wallet = ""
        THEN WithSelf(Fail("Missing client, wallet or contract address!", <<>>, r), self, "")
        ELSE IF gen.error # "" THEN gen
        ELSE IF ~rd.ok THEN WithSelf(Fail("ReadFailed", read, r), gen.self, "")
        ELSE IF alreadyRegistered(contractPublicKey)
        THEN WithSelf(Done(read, r), done, key)
        ELSE IF fault = "contract"
        THEN WithSelf(Fail("ReadFailed", read \o <<"getChainId">>, r), gen.self, "")
        ELSE IF sent.error # "" THEN WithSelf(sent, gen.self, "")
        ELSE WithSelf(sent, done, key)

privateMint(self, recipient, mintAmount, auditorPublicKey, message, fault, r) ==
    LET invalid == validateAmount(mintAmount, NoBalance)
        rd == fetchPublicKey(recipient, fault)
        receiverPublicKey == rd.key
        m == IF message # <<>> THEN 1 ELSE 0
        encryptedMessage == encryptMetadata(receiverPublicKey, message, Draw(r))
        encryptedAmount == encryptMessage(receiverPublicKey, mintAmount, Draw(r + m).random)
        receiver == processPoseidonEncryption(<<mintAmount>>, receiverPublicKey, Draw(r + m + 1))
        auditor == processPoseidonEncryption(<<mintAmount>>, auditorPublicKey, Draw(r + m + 2))
        nullifier == mintNullifier(ChainID, auditor.cipher)
        input == [ circuit |-> "MINT",
                   ValueToMint |-> mintAmount,
                   ChainID |-> ChainID,
                   NullifierHash |-> nullifier,
                   ReceiverPublicKey |-> receiverPublicKey,
                   ReceiverVTTC1 |-> encryptedAmount.c1,
                   ReceiverVTTC2 |-> encryptedAmount.c2,
                   ReceiverVTTRandom |-> Draw(r + m).random,
                   ReceiverPCT |-> receiver.cipher,
                   ReceiverPCTAuthKey |-> receiver.authKey,
                   ReceiverPCTNonce |-> receiver.nonce,
                   ReceiverPCTRandom |-> receiver.encryptionRandom,
                   AuditorPublicKey |-> auditorPublicKey,
                   AuditorPCT |-> auditor.cipher,
                   AuditorPCTAuthKey |-> auditor.authKey,
                   AuditorPCTNonce |-> auditor.nonce,
                   AuditorPCTRandom |-> auditor.encryptionRandom ]
        tx == [ functionName |-> "privateMint",
                args |-> WithMessage(<<recipient, Proof(input)>>, message, encryptedMessage) ]
        done == rd.trace \o Encrypts(m + 3) \o <<"getChainId">>
    IN  IF checkStandalone(self) # "" THEN Fail(checkStandalone(self), <<>>, r)
        ELSE IF ~isAddress(recipient) THEN Fail("Invalid address!", <<>>, r)
        ELSE IF invalid # "" THEN Fail(invalid, <<>>, r)
        ELSE IF ~rd.ok THEN Fail("ReadFailed", rd.trace, r)
        ELSE IF EncFails(self, receiverPublicKey) THEN Fail("InvalidPoint", rd.trace, r + 1)
        ELSE IF EncFails(self, auditorPublicKey)
        THEN Fail("InvalidPoint", rd.trace \o Encrypts(m + 2), r + m + 3)
        ELSE IF fault = "contract" THEN Fail("ReadFailed", done, r + m + 3)
        ELSE ProveAndSend(self, input, tx, done, fault, r + m + 3)

\* a burn with a message that leaves the balancePCT out of its arguments
burnArgsWithoutBalancePCT(proof, balancePCT, message, encryptedMessage) ==
    IF message # <<>> THEN <<proof, encryptedMessage>> ELSE <<proof, balancePCT>>

\* the args of the privateBurn contract call, with and without a message
burnArgs(proof, balancePCT, message, encryptedMessage) ==
    IF message # <<>> THEN <<proof, balancePCT, encryptedMessage>> ELSE <<proof, balancePCT>>

privateBurn(self, amount, encryptedBalance, decryptedBalance, auditorPublicKey, message, fault, r) ==
    LET invalid == validateAmount(amount, <<decryptedBalance>>)
        m == IF message # <<>> THEN 1 ELSE 0
        encryptedMessage == encryptMetadata(self.publicKey, message, Draw(r))
        privateKey == formatKeyForCurve(self.decryptionKey)
        encryptedAmount == encryptMessage(self.publicKey, amount, Draw(r + m).random)
        auditor == processPoseidonEncryption(<<amount>>, auditorPublicKey, Draw(r + m + 1))
        newBalance == senderNewBalance(decryptedBalance, amount)
        user == processPoseidonEncryption(<<newBalance>>, self.publicKey,
                                          Draw(r + m + 2))
        input == [ circuit |-> "BURN",
                   ValueToBurn |-> amount,
                   SenderPrivateKey |-> privateKey,
                   SenderPublicKey |-> self.publicKey,
                   SenderBalance |-> decryptedBalance,
                   SenderBalanceC1 |-> SubSeq(encryptedBalance, 1, 2),
                   SenderBalanceC2 |-> SubSeq(encryptedBalance, 3, 4),
                   SenderVTBC1 |-> encryptedAmount.c1,
                   SenderVTBC2 |-> encryptedAmount.c2,
                   AuditorPublicKey |-> auditorPublicKey,
                   AuditorPCT |-> auditor.cipher,
                   AuditorPCTAuthKey |-> auditor.authKey,
                   AuditorPCTNonce |-> auditor.nonce,
                   AuditorPCTRandom |-> auditor.encryptionRandom ]
        tx == [ functionName |-> "privateBurn",
                args |-> burnArgs(Proof(input), PCT7(user), message, encryptedMessage) ]
    IN  IF checkStandalone(self) # "" THEN Fail(checkStandalone(self), <<>>, r)
        ELSE IF invalid # "" THEN Fail(invalid, <<>>, r)
        ELSE IF EncFails(self, auditorPublicKey)
        THEN Fail("InvalidPoint", Encrypts(m + 1), r + m + 2)
        ELSE ProveAndSend(self, input, tx, Encrypts(m + 3), fault, r + m + 3)

\* fetchTokenId: a read of the token contract
fetchTokenId(tokenAddress, fault) ==
    IF fault = "contract"
    THEN [ok |-> FALSE, tokenId |-> 0, trace |-> <<"tokenIds">>]
    ELSE [ok |-> TRUE, tokenId |-> 1, trace |-> <<"tokenIds">>]

\* a witness that takes the sender's ciphertext of the amount for the receiver's
transferInputWithSenderCipher(self, amount, decryptedBalance, encryptedBalance, encryptedAmountSender, receiverPublicKey, encryptedAmountReceiver, encryptedAmountReceiverRandom, receiver, auditorPublicKey, auditor) ==
    [ circuit |-> "TRANSFER",
      ValueToTransfer |-> amount,
      SenderPrivateKey |-> formatKeyForCurve(self.decryptionKey),
      SenderPublicKey |-> self.publicKey,
      SenderBalance |-> decryptedBalance,
      SenderBalanceC1 |-> SubSeq(encryptedBalance, 1, 2),
      SenderBalanceC2 |-> SubSeq(encryptedBalance, 3, 4),
      SenderVTTC1 |-> encryptedAmountSender.c1,
      SenderVTTC2 |-> encryptedAmountSender.c2,
      ReceiverPublicKey |-> receiverPublicKey,
      ReceiverVTTC1 |-> encryptedAmountSender.c1,
      ReceiverVTTC2 |-> encryptedAmountSender.c2,
      ReceiverVTTRandom |-> encryptedAmountReceiverRandom,
      ReceiverPCT |-> receiver.cipher,
      ReceiverPCTAuthKey |-> receiver.authKey,
      ReceiverPCTNonce |-> receiver.nonce,
      ReceiverPCTRandom |-> receiver.encryptionRandom,
      AuditorPublicKey |-> auditorPublicKey,
      AuditorPCT |-> auditor.cipher,
      AuditorPCTAuthKey |-> auditor.authKey,
      AuditorPCTNonce |-> auditor.nonce,
      AuditorPCTRandom |-> auditor.encryptionRandom ]

\* the input generateTransferProof hands to the prover
transferInput(self, amount, decryptedBalance, encryptedBalance, encryptedAmountSender, receiverPublicKey, encryptedAmountReceiver, encryptedAmountReceiverRandom, receiver, auditorPublicKey, auditor) ==
    [ circuit |-> "TRANSFER",
      ValueToTransfer |-> amount,
      SenderPrivateKey |-> formatKeyForCurve(self.decryptionKey),
      SenderPublicKey |-> self.publicKey,
      SenderBalance |-> decryptedBalance,
      SenderBalanceC1 |-> SubSeq(encryptedBalance, 1, 2),
      SenderBalanceC2 |-> SubSeq(encryptedBalance, 3, 4),
      SenderVTTC1 |-> encryptedAmountSender.c1,
      SenderVTTC2 |-> encryptedAmountSender.c2,
      ReceiverPublicKey |-> receiverPublicKey,
      ReceiverVTTC1 |-> encryptedAmountReceiver.c1,
      ReceiverVTTC2 |-> encryptedAmountReceiver.c2,
      ReceiverVTTRandom |-> encryptedAmountReceiverRandom,
      ReceiverPCT |-> receiver.cipher,
      ReceiverPCTAuthKey |-> receiver.authKey,
      ReceiverPCTNonce |-> receiver.nonce,
      ReceiverPCTRandom |-> receiver.encryptionRandom,
      AuditorPublicKey |-> auditorPublicKey,
      AuditorPCT |-> auditor.cipher,
      AuditorPCTAuthKey |-> auditor.authKey,
      AuditorPCTNonce |-> auditor.nonce,
      AuditorPCTRandom |-> auditor.encryptionRandom ]

\* generateTransferProof; trace and r are those of transfer when it calls.
\* A thrown error is rethrown as new Error(e): it stays the same error.
generateTransferProof(self, to, amount, encryptedBalance, decryptedBalance, auditorPublicKey, fault, trace, r) ==
    LET invalid == validateAmount(amount, <<decryptedBalance>>)
        newBalance == senderNewBalance(decryptedBalance, amount)
        privateKey == formatKeyForCurve(self.decryptionKey)
        rd == fetchPublicKey(to, fault)
        receiverPublicKey == rd.key
        read == trace \o rd.trace
        encryptedAmountSender == encryptMessage(self.publicKey, amount, Draw(r).random)
        encryptedAmountReceiver ==
            encryptMessage(receiverPublicKey, amount, Draw(r + 1).random)
        receiver == processPoseidonEncryption(<<amount>>, receiverPublicKey, Draw(r + 2))
        auditor == processPoseidonEncryption(<<amount>>, auditorPublicKey, Draw(r + 3))
        sender == processPoseidonEncryption(<<newBalance>>, self.publicKey, Draw(r + 4))
        input == transferInput(self, amount, decryptedBalance, encryptedBalance,
                               encryptedAmountSender, receiverPublicKey,
                               encryptedAmountReceiver, Draw(r + 1).random, receiver,
                               auditorPublicKey, auditor)
        proof == generateProof(self, input, fault)
        senderAmount == processPoseidonEncryption(<<amount>>, self.publicKey, Draw(r + 5))
    IN  IF auditorNotSet(auditorPublicKey)
        THEN Fail("Auditor is not set for the contract!", trace, r)
        ELSE IF ~isAddress(to) THEN Fail("Invalid address!", trace, r)
        ELSE IF invalid # "" THEN Fail(invalid, trace, r)
        ELSE IF ~rd.ok THEN Fail("ReadFailed", read, r)
        ELSE IF receiverNotRegistered(receiverPublicKey)
        THEN Fail("Receiver is not registered!", read, r)
        ELSE IF EncFails(self, receiverPublicKey)
        THEN Fail("InvalidPoint", read \o Encrypts(1), r + 2)
        ELSE IF EncFails(self, auditorPublicKey)
        THEN Fail("InvalidPoint", read \o Encrypts(3), r + 4)
        ELSE IF proof.error # ""
        THEN [Fail(proof.error, read \o Encrypts(5) \o proof.trace, r + 5)
                EXCEPT !.witness = input]
        ELSE [ error |-> "",
               trace |-> read \o Encrypts(5) \o proof.trace \o Encrypts(1),
               witness |-> input,
               tx |-> NoTx,
               rng |-> r + 6,
               proof |-> Proof(input),
               senderBalancePCT |-> PCT7(sender),
               receiverEncryptedAmount |-> PCT7(receiver),
               senderEncryptedAmount |-> PCT7(senderAmount) ]

transfer(self, to, amount, encryptedBalance, decryptedBalance, auditorPublicKey, tokenAddress, message, fault, r) ==
    LET invalid == validateAmount(amount, <<decryptedBalance>>)
        rd == fetchPublicKey(to, fault)
        receiverPublicKey == rd.key
        m == IF message # <<>> THEN 1 ELSE 0
        encryptedMessage == encryptMetadata(receiverPublicKey, message, Draw(r))
        tok == fetchTokenId(tokenAddress, fault)
        tokenId == IF tokenAddress # "" THEN tok.tokenId ELSE 0
        read == rd.trace \o Encrypts(m) \o (IF tokenAddress # "" THEN tok.trace ELSE <<>>)
        gen == generateTransferProof(self, to, amount, encryptedBalance, decryptedBalance,
                                     auditorPublicKey, fault, read, r + m)
        tx == [ functionName |-> "transfer",
                args |-> WithMessage(<<to, tokenId, gen.proof, gen.senderBalancePCT>>,
                                     message, encryptedMessage) ]
    IN  IF ~isAddress(to) THEN Fail("Invalid address!", <<>>, r)
        ELSE IF invalid # "" THEN Fail(invalid, <<>>, r)
        ELSE IF ~rd.ok THEN Fail("ReadFailed", rd.trace, r)
        ELSE IF message # <<>> /\ EncFails(self, receiverPublicKey)
        THEN Fail("InvalidPoint", rd.trace, r + 1)
        ELSE IF tokenAddress # "" /\ ~tok.ok THEN Fail("ReadFailed", read, r + m)
        ELSE IF gen.error # "" THEN gen
        ELSE SendTx(gen.witness, tx, gen.trace, fault, gen.rng)

\* fetchUserApprove and the decimals of the token: reads of the ERC-20
\* the quotient of two bigints: rounded towards zero
BigIntDiv(a, b) == IF a >= 0 THEN a \div b ELSE -((-a) \div b)

\* a conversion that scales in the wrong direction
convertTokenDecimalsSwapped(amount, fromDecimals, toDecimals) ==
    IF fromDecimals = toDecimals THEN amount
    ELSE IF fromDecimals - toDecimals > 0
    THEN amount * (10 ^ (fromDecimals - toDecimals))
    ELSE BigIntDiv(amount, 10 ^ (toDecimals - fromDecimals))

convertTokenDecimals(amount, fromDecimals, toDecimals) ==
    IF fromDecimals = toDecimals THEN amount
    ELSE IF fromDecimals - toDecimals > 0
    THEN BigIntDiv(amount, 10 ^ (fromDecimals - toDecimals))
    ELSE amount * (10 ^ (toDecimals - fromDecimals))

deposit(self, amount, tokenAddress, eERCDecimals, message, approveAmount, decimals, fault, r) ==
    LET m == IF message # <<>> THEN 1 ELSE 0
        encryptedMessage == encryptMetadata(self.publicKey, message, Draw(r))
        parsedAmount == convertTokenDecimals(amount, decimals, eERCDecimals)
        pct == processPoseidonEncryption(<<parsedAmount>>, self.publicKey, Draw(r + m))
        tx == [ functionName |-> "deposit",
                args |-> WithMessage(<<amount, tokenAddress, PCT7(pct)>>,
                                     message, encryptedMessage) ]
        done == <<"allowance">> \o Encrypts(m) \o <<"decimals">> \o Encrypts(1)
    IN  IF checkConverter(self) # "" THEN Fail(checkConverter(self), <<>>, r)
        ELSE IF self.wallet = "" THEN Fail("Missing wallet!", <<>>, r)
        ELSE IF fault = "contract" THEN Fail("ReadFailed", <<"allowance">>, r)
        ELSE IF approveAmount < amount
        THEN Fail("Insufficient approval amount!", <<"allowance">>, r)
        ELSE IF amount < 0
        THEN Fail("SimulationFailed", done \o <<"simulate">>, r + m + 1)
        ELSE SendTx(NoWitness, tx, done, fault, r + m + 1)

withdraw(self, amount, encryptedBalance, decryptedBalance, auditorPublicKey, tokenAddress, message, fault, r) ==
    LET invalid == validateAmount(amount, <<decryptedBalance>>)
        tok == fetchTokenId(tokenAddress, fault)
        m == IF message # <<>> THEN 1 ELSE 0
        encryptedMessage == encryptMetadata(self.publicKey, message, Draw(r))
        newBalance == senderNewBalance(decryptedBalance, amount)
        privateKey == formatKeyForCurve(self.decryptionKey)
        sender == processPoseidonEncryption(<<newBalance>>, self.publicKey, Draw(r + m))
        auditor == processPoseidonEncryption(<<amount>>, auditorPublicKey, Draw(r + m + 1))
        input == [ circuit |-> "WITHDRAW",
                   ValueToWithdraw |-> amount,
                   SenderPrivateKey |-> privateKey,
                   SenderPublicKey |-> self.publicKey,
                   SenderBalance |-> decryptedBalance,
                   SenderBalanceC1 |-> SubSeq(encryptedBalance, 1, 2),
                   SenderBalanceC2 |-> SubSeq(encryptedBalance, 3, 4),
                   AuditorPublicKey |-> auditorPublicKey,
                   AuditorPCT |-> auditor.cipher,
                   AuditorPCTAuthKey |-> auditor.authKey,
                   AuditorPCTNonce |-> auditor.nonce,
                   AuditorPCTRandom |-> auditor.encryptionRandom ]
        tx == [ functionName |-> "withdraw",
                args |-> WithMessage(<<tok.tokenId, Proof(input), PCT7(sender)>>,
                                     message, encryptedMessage) ]
    IN  IF checkConverter(self) # "" THEN Fail(checkConverter(self), <<>>, r)
        ELSE IF invalid # "" THEN Fail(invalid, <<>>, r)
        ELSE IF ~tok.ok THEN Fail("ReadFailed", tok.trace, r)
        ELSE IF EncFails(self, auditorPublicKey)
        THEN Fail("InvalidPoint", tok.trace \o Encrypts(m + 1), r + m + 2)
        ELSE ProveAndSend(self, input, tx, tok.trace \o Encrypts(m + 2), fault, r + m + 2)

\* decryptPCT: the first plaintext element of a 7-field PCT
decryptPCT(self, pct) ==
    processPoseidonDecryption(formatKeyForCurve(self.decryptionKey),
                              SubSeq(pct, 5, 6), SubSeq(pct, 1, 4), pct[7], 1)[1]

RECURSIVE SumPCTs(_, _)
SumPCTs(self, amountPCTs) ==
    IF amountPCTs = <<>> THEN 0
    ELSE decryptPCT(self, Head(amountPCTs).pct) + SumPCTs(self, Tail(amountPCTs))

\* a test that takes every balancePCT for the empty one
balancePCTIsSetNever(balancePCT) == FALSE

\* balancePCT?.some((e) => e !== 0n)
balancePCTIsSet(balancePCT) == \E i \in 1..Len(balancePCT) : balancePCT[i] # 0

calculateTotalBalance(self, eGCT, amountPCTs, balancePCT) ==
    LET privateKey == formatKeyForCurve(self.decryptionKey)
        totalBalance ==
            (IF balancePCTIsSet(balancePCT)
             THEN decryptPCT(self, balancePCT) ELSE 0)
            + SumPCTs(self, amountPCTs)
        decryptedEGCT == elGamalDecryption(privateKey, eGCT)
        expectedPoint == mulWithScalar(Base8, totalBalance)
    IN  IF totalBalance # 0
           /\ (decryptedEGCT[1] # expectedPoint[1] \/ decryptedEGCT[2] # expectedPoint[2])
        THEN -1
        ELSE totalBalance

\* ------------------------------------------------------ useEncryptedBalance

\* the balance entry of a user the contract has not yet credited
EmptyBalance ==
    [ eGCT |-> [c1 |-> Identity, c2 |-> Identity],
      amountPCTs |-> <<>>,
      balancePCT |-> ZeroPCT,
      plain |-> 0 ]

\* the hook without an instance: eerc is undefined
NoEERC == NewEERC("", FALSE, {}, "", FALSE)

\* the balance state of useEncryptedBalance before any balance was decrypted
EmptyBalanceState == [decrypted |-> 0, parsed |-> "", encrypted |-> <<>>, of |-> ""]

\* what useReadContract holds for the balance of an address: nothing yet, or
\* the balance entry the contract returned for it
NoContractBalance == [fetched |-> FALSE, of |-> "", entry |-> EmptyBalance]

\* the balance effect: it leaves the state when something is missing, resets
\* it when the instance is of another wallet, and otherwise stores the total
\* balance and the ElGamal ciphertext (of: the wallet it was computed for)
balanceEffect(balanceState, contractBalance, eerc, walletAddress) ==
    IF ~contractBalance.fetched \/ eerc = NoEERC \/ ~(eerc.decryptionKey # "")
       \/ walletAddress = ""
    THEN balanceState
    ELSE IF eerc.wallet # walletAddress
    THEN EmptyBalanceState
    ELSE LET totalBalance == calculateTotalBalance(eerc, contractBalance.entry.eGCT,
                                                   contractBalance.entry.amountPCTs,
                                                   contractBalance.entry.balancePCT)
         IN  [ decrypted |-> totalBalance,
               parsed |-> ToString(totalBalance),
               encrypted |-> contractBalance.entry.eGCT.c1 \o contractBalance.entry.eGCT.c2,
               of |-> contractBalance.of ]

\* !auditorPublicKey.length || auditorPublicKey.some((key) => key === 0n)
auditorKeyMissing(auditorPublicKey) ==
    auditorPublicKey = <<>> \/ \E i \in 1..Len(auditorPublicKey) : auditorPublicKey[i] = 0

\* useEncryptedBalance.privateBurn
hookPrivateBurn(eerc, balanceState, auditorPublicKey, amount, message, fault, r) ==
    IF eerc = NoEERC \/ balanceState.encrypted = <<>>
    THEN Fail("EERC not initialized", <<>>, r)
    ELSE IF auditorKeyMissing(auditorPublicKey)
    THEN Fail("Auditor public key is not set", <<>>, r)
    ELSE IF balanceState.decrypted < amount \/ amount <= 0
    THEN Fail("Invalid amount", <<>>, r)
    ELSE privateBurn(eerc, amount, balanceState.encrypted, balanceState.decrypted,
                     auditorPublicKey, message, fault, r)

\* useEncryptedBalance.privateTransfer
hookPrivateTransfer(eerc, balanceState, auditorPublicKey, tokenAddress, to, amount, message, fault, r) ==
    IF eerc = NoEERC \/ balanceState.encrypted = <<>>
    THEN Fail("EERC not initialized", <<>>, r)
    ELSE IF auditorKeyMissing(auditorPublicKey)
    THEN Fail("Auditor public key is not set", <<>>, r)
    ELSE IF balanceState.decrypted < amount \/ amount <= 0
    THEN Fail("Invalid amount", <<>>, r)
    ELSE transfer(eerc, to, amount, balanceState.encrypted, balanceState.decrypted,
                  auditorPublicKey, tokenAddress, message, fault, r)

\* useEncryptedBalance.withdraw: the amount is left to the instance
hookWithdraw(eerc, balanceState, auditorPublicKey, tokenAddress, amount, message, fault, r) ==
    IF eerc = NoEERC THEN Fail("EERC not initialized", <<>>, r)
    ELSE IF tokenAddress = "" THEN Fail("Token address is not set", <<>>, r)
    ELSE IF auditorKeyMissing(auditorPublicKey)
    THEN Fail("Auditor public key is not set", <<>>, r)
    ELSE withdraw(eerc, amount, balanceState.encrypted, balanceState.decrypted,
                  auditorPublicKey, tokenAddress, message, fault, r)

\* client.getLogs for the PrivateMessage event of one block: the logs of the
\* block's transactions, in the order of the chain
getMessageLogs(transactions, blockNumber) ==
    SelectSeq(transactions, LAMBDA t : t.blockNumber = blockNumber /\ t.emits)

\* decryptMessage(transactionHash); a transaction hash is the position of the
\* transaction on the chain
decryptMessage(self, transactions, transactionHash) ==
    LET tx == transactions[transactionHash]
        logs == getMessageLogs(transactions, tx.blockNumber)
        metadata == logs[1].metadata
        privateKey == formatKeyForCurve(self.decryptionKey)
    IN  IF logs = <<>>
        THEN [ error |-> "No private message found for this transaction",
               metadata |-> NoMetadata ]
        ELSE IF metadata.encryptedMsg = <<>>
        THEN [ error |-> "No encrypted message found in the transaction logs",
               metadata |-> NoMetadata ]
        ELSE [ error |-> "",
               metadata |-> [ decryptedMessage |-> decryptMetadata(privateKey, metadata.encryptedMsg),
                              messageType |-> metadata.messageType,
                              messageFrom |-> metadata.messageFrom,
                              messageTo |-> metadata.messageTo ] ]

\* the number of blocks hasBeenAuditor looks back (1000 in the source)
BOUND == 2

\* client.getLogs({fromBlock, toBlock}): the logs of the blocks in the range,
\* in the order of the chain
getLogs(logs, fromBlock, toBlock) ==
    SelectSeq(logs, LAMBDA log : fromBlock <= log.blockNumber /\ log.blockNumber <= toBlock)

\* the loop over the filtered logs: currentStart is set by a log that names
\* the wallet as newAuditor; a log that names it as oldAuditor returns true
\* only when currentStart is set
RECURSIVE scanAuditorLogs(_, _, _)
scanAuditorLogs(filteredLogs, address, started) ==
    IF filteredLogs = <<>> THEN started
    ELSE IF Head(filteredLogs).newAuditor = address
    THEN scanAuditorLogs(Tail(filteredLogs), address, TRUE)
    ELSE IF Head(filteredLogs).oldAuditor = address /\ started THEN TRUE
    ELSE scanAuditorLogs(Tail(filteredLogs), address, started)

hasBeenAuditor(self, logs, currentBlock) ==
    LET window == getLogs(logs, IF currentBlock > BOUND THEN currentBlock - BOUND ELSE 0,
                          currentBlock)
        filteredLogs == SelectSeq(window, LAMBDA log : log.oldAuditor = self.wallet
                                                        \/ log.newAuditor = self.wallet)
    IN  scanAuditorLogs(filteredLogs, self.wallet, FALSE)

\* ------------------------------------------------------------------ useEERC

\* the contract addresses the application passes, and the registrar and the
\* isConverter flag the contract at each address reports
ContractAddresses == {"0xc1", "0xc2"}

registrarOf(contractAddress) == IF contractAddress = "0xc1" THEN "0xr1" ELSE "0xr2"

isConverterOf(contractAddress) == contractAddress = "0xc2"

\* the wallet the application passes: none, or the client of one of two accounts
HookWallets == {"", WalletAddress, OtherAddress}

\* the decryptionKey the application passes: none, or a key of its own
SuppliedKeys == {"", "kAuditor"}

\* the arguments of new EERC(...) that the hook chooses
EERCArgs(wallet, contractAddress, registrarAddress, isConverter, decryptionKey) ==
    [ wallet |-> wallet, contractAddress |-> contractAddress,
      registrarAddress |-> registrarAddress, isConverter |-> isConverter,
      decryptionKey |-> decryptionKey ]

\* the instance new EERC(...) makes of the arguments, which it remembers
InstanceOf(args) ==
    LET _eerc == NewEERC(args.wallet, args.isConverter, Circuits, args.decryptionKey, FALSE)
    IN  [ wallet |-> _eerc.wallet, curve |-> _eerc.curve, isConverter |-> _eerc.isConverter,
          circuitURLs |-> _eerc.circuitURLs, decryptionKey |-> _eerc.decryptionKey,
          publicKey |-> _eerc.publicKey, args |-> args ]

\* the state updates queued since the last render, the last one queued for
\* each piece of state: <<>> for none, <<value>> for a value
NoPending ==
    [ eerc |-> <<>>, isInitialized |-> <<>>, contractData |-> <<>>,
      generatedDecryptionKey |-> <<>>, balanceState |-> <<>> ]

\* no generateDecryptionKey call in flight
NoPromise == [instance |-> NoEERC, held |-> FALSE]

\* the dependency array of the initialize effect
initializeDeps(h) ==
    [ wallet |-> h.wallet, contractAddress |-> h.contractAddress,
      isConverter |-> h.isConverter, registrarAddress |-> h.registrarAddress,
      decryptionKey |-> h.decryptionKey, isInitialized |-> h.isInitialized,
      generatedDecryptionKey |-> h.generatedDecryptionKey ]

\* the dependency array of the balance effect; an instance is the object its
\* construction made
balanceDeps(h) ==
    [ contractBalance |-> h.contractBalance,
      eerc |-> IF h.eerc = NoEERC THEN <<>> ELSE <<h.eerc.args>>,
      wallet |-> h.wallet ]

\* the hooks after the first render and its effects: no instance, nothing
\* fetched, the effects have run with the values of that render
MountedHook(wallet, contractAddress, decryptionKey) ==
    LET h == [ wallet |-> wallet, contractAddress |-> contractAddress,
               decryptionKey |-> decryptionKey,
               eerc |-> NoEERC, isInitialized |-> FALSE, isConverter |-> FALSE,
               registrarAddress |-> "", generatedDecryptionKey |-> "",
               balanceState |-> EmptyBalanceState, contractBalance |-> NoContractBalance,
               promise |-> NoPromise, pending |-> NoPending, changes |-> 0,
               initializeRan |-> <<>>, resetRan |-> wallet, balanceRan |-> <<>> ]
    IN  [h EXCEPT !.initializeRan = initializeDeps(h), !.balanceRan = balanceDeps(h)]

\* the hooks of an application that passes nothing
NoHook == MountedHook("", "", "")

\* the render: every queued update is applied
applyPending(h) ==
    LET p == h.pending
    IN  [h EXCEPT
           !.eerc = IF p.eerc = <<>> THEN @ ELSE p.eerc[1],
           !.isInitialized = IF p.isInitialized = <<>> THEN @ ELSE p.isInitialized[1],
           !.registrarAddress = IF p.contractData = <<>> THEN @
                                ELSE p.contractData[1].registrarAddress,
           !.isConverter = IF p.contractData = <<>> THEN @
                           ELSE p.contractData[1].isConverter,
           !.generatedDecryptionKey = IF p.generatedDecryptionKey = <<>> THEN @
                                      ELSE p.generatedDecryptionKey[1],
           !.balanceState = IF p.balanceState = <<>> THEN @ ELSE p.balanceState[1],
           !.promise = IF p.eerc = <<>> THEN @ ELSE [@ EXCEPT !.held = FALSE],
           !.pending = NoPending]

\* the effect that resets the generated key when the wallet address changes
resetEffect(h, pending) ==
    IF h.wallet = h.resetRan THEN pending
    ELSE [pending EXCEPT !.generatedDecryptionKey = <<"">>]

\* the cleanup of the initialize effect, with the isInitialized of the render
\* in which the effect last ran
initializeCleanup(ran, pending) ==
    IF ran.isInitialized
    THEN [pending EXCEPT !.isInitialized = <<FALSE>>, !.eerc = <<NoEERC>>]
    ELSE pending

\* decryptionKey || generatedDecryptionKey
correctKey(h) == IF h.decryptionKey # "" THEN h.decryptionKey ELSE h.generatedDecryptionKey

\* the arguments the hook would construct an instance from in this render
currentArgs(h) ==
    EERCArgs(h.wallet, h.contractAddress, h.registrarAddress, h.isConverter, correctKey(h))

\* initializeEERC: nothing when a prerequisite is missing or the hook is
\* initialized, otherwise a new instance and isInitialized
initializeEERC(h, pending) ==
    IF h.wallet = "" \/ h.contractAddress = "" \/ h.registrarAddress = "" \/ h.isInitialized
    THEN pending
    ELSE [pending EXCEPT !.eerc = <<InstanceOf(currentArgs(h))>>, !.isInitialized = <<TRUE>>]

\* the initialize effect of a render: when a dependency changed, the cleanup
\* of its last run and then its body
initializeEffect(h, pending) ==
    IF initializeDeps(h) = h.initializeRan THEN pending
    ELSE initializeEERC(h, initializeCleanup(h.initializeRan, pending))

\* the balance effect of a render, when a dependency changed
hookBalanceEffect(h, pending) ==
    IF balanceDeps(h) = h.balanceRan THEN pending
    ELSE LET next == balanceEffect(h.balanceState, h.contractBalance, h.eerc, h.wallet)
         IN  IF next = h.balanceState THEN pending
             ELSE [pending EXCEPT !.balanceState = <<next>>]

\* a render and its commit: the queued updates are applied, then the effects
\* whose dependencies changed run and queue their updates
commit(h) ==
    LET s == applyPending(h)
        queued == hookBalanceEffect(s, initializeEffect(s, resetEffect(s, NoPending)))
    IN  [s EXCEPT !.pending = queued, !.initializeRan = initializeDeps(s),
                  !.resetRan = s.wallet, !.balanceRan = balanceDeps(s)]

\* a render is due: an update is queued or an effect has a changed dependency
renderDue(h) ==
    \/ h.pending # NoPending
    \/ initializeDeps(h) # h.initializeRan
    \/ h.wallet # h.resetRan
    \/ balanceDeps(h) # h.balanceRan


\* ----------------------------------------------------------- state machine

\* this: the EERC instance; rng: the number of draws taken from the
\* randomness source; last: the last invocation, its arguments and outcome
\* ledger: the contract's balance entry of every holder, with the plaintext
\* balance the entry stands for; txCount: the transactions the contract has
\* executed; mints: the privateMint invocations
\* that built a witness, each with the NullifierHash of its witness;
\* hook: the parameters, state, queued updates and effects of useEERC and
\* useEncryptedBalance in a mounted component
VARIABLES this, rng, last, ledger, txCount, mints, codec, chain, hook

vars == <<this, rng, last, ledger, txCount, mints, codec, chain, hook>>

\* the users whose balance the contract holds
Holders == {WalletAddress, OtherAddress}

Amounts == -1..MaxAmount
Balances == 0..MaxAmount
Recipients == Addresses \cup {NotAnAddress}
AuditorKeys == {UnsetKey, AuditorPublicKey}
Messages == {<<>>, <<1, 2>>}

\* the balance arguments a caller holding the plaintext balance bal passes:
\* the ElGamal ciphertext of bal under the caller's key as <<c1x, c1y, c2x, c2y>>
EncryptedBalance(self, bal) ==
    LET c == encryptMessage(self.publicKey, bal, 1) IN c.c1 \o c.c2

Invocation(op, to, amount, bal, auditorPublicKey, message, fault, res) ==
    [ op |-> op, to |-> to, amount |-> amount, decryptedBalance |-> bal,
      auditorPublicKey |-> auditorPublicKey, message |-> message, fault |-> fault,
      isConverter |-> this.isConverter, decimals |-> 0, key |-> "", result |-> "",
      metadata |-> NoMetadata,
      error |-> res.error, trace |-> res.trace, witness |-> res.witness, tx |-> res.tx ]

NoInvocation ==
    [ op |-> "", to |-> "", amount |-> 0, decryptedBalance |-> 0,
      auditorPublicKey |-> UnsetKey, message |-> <<>>, fault |-> "none",
      isConverter |-> FALSE, decimals |-> 0, key |-> "", result |-> "",
      metadata |-> NoMetadata,
      error |-> "", trace |-> <<>>, witness |-> NoWitness, tx |-> NoTx ]

\* the chain the contract lives on: the number of its latest block and the
\* logs the contract has emitted, oldest first
NoChain == [block |-> 0, auditor |-> ZeroAddress, logs |-> <<>>, transactions |-> <<>>]

\* the value the codec was given, the value it has made of it and the
\* functions applied on the way; no value while the SDK is at work
NoCodec == [type |-> "", input |-> <<>>, value |-> <<>>, privateKey |-> 0, trace |-> <<>>]

Init ==
    /\ this \in { NewEERC(WalletAddress, conv, Circuits, "k1", strict) :
                    conv \in BOOLEAN, strict \in BOOLEAN }
    /\ rng = 0
    /\ last = NoInvocation
    /\ ledger = [h \in Holders |-> EmptyBalance]
    /\ txCount = 0
    /\ mints = <<>>
    /\ codec = NoCodec
    /\ chain = NoChain
    /\ hook = NoHook

\* an invocation starts when the previous one has returned to its caller
Record(inv, res) ==
    /\ last.op = ""
    /\ res.rng <= MaxDraws
    /\ rng' = res.rng
    /\ last' = inv
    /\ UNCHANGED <<this, ledger, txCount, mints, codec, chain, hook>>

PrivateMint ==
    \E to \in Recipients, amount \in Amounts, aud \in AuditorKeys,
       message \in Messages, fault \in Faults :
        LET res == privateMint(this, to, amount, aud, message, fault, rng)
        IN  Record(Invocation("privateMint", to, amount, 0, aud, message, fault, res), res)

PrivateBurn ==
    \E amount \in Amounts, bal \in Balances, aud \in AuditorKeys,
       message \in Messages, fault \in Faults :
        LET res == privateBurn(this, amount, EncryptedBalance(this, bal), bal, aud,
                               message, fault, rng)
        IN  Record(Invocation("privateBurn", "", amount, bal, aud, message, fault, res), res)

Transfer ==
    \E to \in Recipients, amount \in Amounts, bal \in Balances, aud \in AuditorKeys,
       message \in Messages, fault \in Faults :
        LET res == transfer(this, to, amount, EncryptedBalance(this, bal), bal, aud,
                            IF this.isConverter THEN TokenAddress ELSE "",
                            message, fault, rng)
        IN  Record(Invocation("transfer", to, amount, bal, aud, message, fault, res), res)

\* the decimals of the encrypted token and those an ERC-20 can have
EERCDecimals == 2
TokenDecimals == {1, 2, 3}

\* deposits are tried with the amounts of the other operations and with
\* amounts of more than one unit of the encrypted token and a remainder
DepositAmounts == Amounts \cup {10 * a + MaxAmount : a \in 1..MaxAmount}

Deposit ==
    \E amount \in DepositAmounts, approve \in {0, 11 * MaxAmount},
       decimals \in TokenDecimals, message \in Messages, fault \in Faults :
        LET res == deposit(this, amount, TokenAddress, EERCDecimals, message, approve,
                           decimals, fault, rng)
        IN  Record([Invocation("deposit", "", amount, 0, UnsetKey, message, fault, res)
                        EXCEPT !.decimals = decimals], res)

Withdraw ==
    \E amount \in Amounts, bal \in Balances, aud \in AuditorKeys,
       message \in Messages, fault \in Faults :
        LET res == withdraw(this, amount, EncryptedBalance(this, bal), bal, aud,
                            TokenAddress, message, fault, rng)
        IN  Record(Invocation("withdraw", "", amount, bal, aud, message, fault, res), res)

\* what the registrar can hold for the wallet of the instance: nothing, the
\* wallet's key, or a key with one coordinate 0
RegistrarAnswers == {UnsetKey, getUserPublicKey(WalletAddress), Identity}

\* a call that may store a key in the instance
RecordKeyed(op, contractPublicKey, fault, res) ==
    /\ last.op = ""
    /\ last' = [Invocation(op, "", 0, 0, contractPublicKey, <<>>, fault, res)
                   EXCEPT !.key = res.key]
    /\ this' = res.self
    /\ UNCHANGED <<rng, ledger, txCount, mints, codec, chain, hook>>

Register ==
    \E contractPublicKey \in RegistrarAnswers, fault \in Faults \cup {"sign"} :
        RecordKeyed("register", contractPublicKey, fault,
                    register(this, contractPublicKey, fault, rng))

GenerateDecryptionKey ==
    \E fault \in {"none", "sign"} :
        RecordKeyed("generateDecryptionKey", UnsetKey, fault,
                    generateDecryptionKey(this, fault, rng))

\* the promise of the last invocation has settled and its caller has taken
\* the outcome: the instance is idle again
Return ==
    /\ last.op # ""
    /\ last' = NoInvocation
    /\ UNCHANGED <<this, rng, ledger, txCount, mints, codec, chain, hook>>

Next ==
    PrivateMint \/ PrivateBurn \/ Transfer \/ Deposit \/ Withdraw \/ Register \/ Return

Spec == Init /\ [][Next]_vars

\* --------------------------------------------------------- key registration

\* the instance as the caller constructs it: without a stored key or with a
\* key stored for another wallet; the key of its own wallet is the one it
\* derives
InitRegister ==
    /\ this \in { NewEERC(WalletAddress, conv, Circuits, key, strict) :
                    conv \in BOOLEAN, key \in {"", "k2"}, strict \in BOOLEAN }
    /\ rng = 0
    /\ last = NoInvocation
    /\ ledger = [h \in Holders |-> EmptyBalance]
    /\ txCount = 0
    /\ mints = <<>>
    /\ codec = NoCodec
    /\ chain = NoChain
    /\ hook = NoHook

NextRegister == Register \/ GenerateDecryptionKey \/ Return

SpecRegister == InitRegister /\ [][NextRegister]_vars

\* ------------------------------------------------------------- the ledger

\* the SDK instance of the holder h
Holder(h) == NewEERC(h, this.isConverter, Circuits, KeyOfAddress(h), this.curve.strict)

\* componentwise point addition and subtraction of two EGCTs
addEGCT(a, b) == [c1 |-> addPoints(a.c1, b.c1), c2 |-> addPoints(a.c2, b.c2)]
subEGCT(a, b) == [c1 |-> subPoints(a.c1, b.c1), c2 |-> subPoints(a.c2, b.c2)]

\* an incoming credit of v: the EGCT is added, the amount-PCT is queued
Credit(balance, egct, pct, v) ==
    [ balance EXCEPT !.eGCT = addEGCT(@, egct),
                     !.amountPCTs = Append(@, [pct |-> pct, index |-> txCount]),
                     !.plain = @ + v ]

\* an outgoing debit of v: the EGCT is subtracted, balancePCT is replaced by
\* the sender's PCT of the new balance, which folds the queued amount-PCTs
Debit(balance, egct, balancePCT, v) ==
    [ balance EXCEPT !.eGCT = subEGCT(@, egct),
                     !.amountPCTs = <<>>,
                     !.balancePCT = balancePCT,
                     !.plain = @ - v ]

\* the EGCT the contract computes itself for a public amount
PublicEGCT(h, v) == encryptMessage(getUserPublicKey(h), v, 1)

\* what the holder h reads back: balanceOf, then calculateTotalBalance
TotalBalance(h) ==
    calculateTotalBalance(Holder(h), ledger[h].eGCT, ledger[h].amountPCTs,
                          ledger[h].balancePCT)

\* the encryptedBalance argument h passes: its EGCT as <<c1x, c1y, c2x, c2y>>
EncryptedBalanceOf(h) == ledger[h].eGCT.c1 \o ledger[h].eGCT.c2

ValidAmounts == 1..MaxAmount

\* the contract executes the accepted transaction: the ledger and the
\* randomness source move on, the instance is idle before and after
Executed(res, newLedger) ==
    /\ last.op = ""
    /\ txCount < MaxTx
    /\ res.error = ""
    /\ \A h \in Holders : newLedger[h].plain <= MaxSupply
    /\ ledger' = newLedger
    /\ txCount' = txCount + 1
    /\ rng' = res.rng
    /\ UNCHANGED <<this, last, mints, codec, chain, hook>>

LedgerMint ==
    \E to \in Holders, amount \in ValidAmounts :
        LET res == privateMint(this, to, amount, AuditorPublicKey, <<>>, "none", rng)
            w == res.witness
        IN  Executed(res,
                [ledger EXCEPT ![to] =
                    Credit(@, [c1 |-> w.ReceiverVTTC1, c2 |-> w.ReceiverVTTC2],
                           w.ReceiverPCT \o w.ReceiverPCTAuthKey \o <<w.ReceiverPCTNonce>>,
                           amount)])

LedgerTransfer ==
    \E h \in Holders, to \in Holders, amount \in ValidAmounts :
        LET res == transfer(Holder(h), to, amount, EncryptedBalanceOf(h), TotalBalance(h),
                            AuditorPublicKey,
                            IF this.isConverter THEN TokenAddress ELSE "",
                            <<>>, "none", rng)
            w == res.witness
            debited == [ledger EXCEPT ![h] =
                          Debit(@, [c1 |-> w.SenderVTTC1, c2 |-> w.SenderVTTC2],
                                res.tx.args[4], amount)]
        IN  Executed(res,
                [debited EXCEPT ![to] =
                    Credit(@, [c1 |-> w.ReceiverVTTC1, c2 |-> w.ReceiverVTTC2],
                           w.ReceiverPCT \o w.ReceiverPCTAuthKey \o <<w.ReceiverPCTNonce>>,
                           amount)])

LedgerBurn ==
    \E h \in Holders, amount \in ValidAmounts :
        LET res == privateBurn(Holder(h), amount, EncryptedBalanceOf(h), TotalBalance(h),
                               AuditorPublicKey, <<>>, "none", rng)
            w == res.witness
        IN  Executed(res,
                [ledger EXCEPT ![h] =
                    Debit(@, [c1 |-> w.SenderVTBC1, c2 |-> w.SenderVTBC2],
                          res.tx.args[2], amount)])

LedgerDeposit ==
    \E h \in Holders, amount \in ValidAmounts :
        LET res == deposit(Holder(h), amount, TokenAddress, EERCDecimals, <<>>, MaxAmount,
                           EERCDecimals, "none", rng)
        IN  Executed(res,
                [ledger EXCEPT ![h] =
                    Credit(@, PublicEGCT(h, amount), res.tx.args[3], amount)])

LedgerWithdraw ==
    \E h \in Holders, amount \in ValidAmounts :
        LET res == withdraw(Holder(h), amount, EncryptedBalanceOf(h), TotalBalance(h),
                            AuditorPublicKey, TokenAddress, <<>>, "none", rng)
        IN  Executed(res,
                [ledger EXCEPT ![h] =
                    Debit(@, PublicEGCT(h, amount), res.tx.args[3], amount)])

NextLedger ==
    LedgerMint \/ LedgerTransfer \/ LedgerBurn \/ LedgerDeposit \/ LedgerWithdraw

SpecLedger == Init /\ [][NextLedger]_vars

\* ---------------------------------------------------- a sequence of mints

\* one more privateMint on the same chain: the NullifierHash of the witness
\* it hands to the prover is kept
MintAgain ==
    \E to \in Holders, amount \in ValidAmounts, message \in Messages,
       fault \in {"none", "prove"} :
        LET res == privateMint(this, to, amount, AuditorPublicKey, message, fault, rng)
        IN  /\ last.op = ""
            /\ Len(mints) < MaxMints
            /\ res.witness # NoWitness
            /\ mints' = Append(mints, [ to |-> to, amount |-> amount,
                                        NullifierHash |-> res.witness.NullifierHash ])
            /\ rng' = res.rng
            /\ UNCHANGED <<this, last, ledger, txCount, codec, chain, hook>>

NextMint == MintAgain

SpecMint == Init /\ [][NextMint]_vars

\* ------------------------------------------------------------ message codec

RECURSIVE SeqsUpTo(_, _)
SeqsUpTo(S, n) ==
    IF n = 0 THEN {<<>>}
    ELSE LET shorter == SeqsUpTo(S, n - 1)
         IN  shorter \cup {Append(q, x) : q \in shorter, x \in S}

Strings == SeqsUpTo(Chars, MaxLen)
ChunkArrays == SeqsUpTo(0..(chunkSize - 1), MaxChunks) \ {<<>>}
PrivateKeys == 1..(SUB_GROUP_ORDER - 1)
CodecDraws == 0..2

\* the caller holds a string or an array of chunks
InitCodec ==
    /\ this = NewEERC(WalletAddress, FALSE, Circuits, "k1", TRUE)
    /\ rng = 0
    /\ last = NoInvocation
    /\ ledger = [h \in Holders |-> EmptyBalance]
    /\ txCount = 0
    /\ mints = <<>>
    /\ chain = NoChain
    /\ hook = NoHook
    /\ codec \in { [NoCodec EXCEPT !.type = "string", !.input = str, !.value = str] :
                     str \in Strings }
            \cup { [NoCodec EXCEPT !.type = "chunks", !.input = c, !.value = c] :
                     c \in ChunkArrays }

\* one function of the codec applied to the value at hand
Apply(f, type, value, privateKey) ==
    /\ Len(codec.trace) < 2
    /\ codec' = [codec EXCEPT !.type = type, !.value = value, !.privateKey = privateKey,
                              !.trace = Append(@, f)]
    /\ UNCHANGED <<this, rng, last, ledger, txCount, mints, chain, hook>>

Str2Int ==
    /\ codec.type = "string"
    /\ Apply("str2int", "chunks", str2int(codec.value), codec.privateKey)

Int2Str ==
    /\ codec.type = "chunks"
    /\ Apply("int2str", "string", int2str(codec.value), codec.privateKey)

EncryptMetadata ==
    /\ codec.type = "string"
    /\ \E privateKey \in PrivateKeys, r \in CodecDraws :
        Apply("encryptMetadata", "bytes",
              encryptMetadata(mulWithScalar(Base8, privateKey), codec.value, Draw(r)),
              privateKey)

DecryptMetadata ==
    /\ codec.type = "bytes"
    /\ Apply("decryptMetadata", "string", decryptMetadata(codec.privateKey, codec.value),
             codec.privateKey)

NextCodec == Str2Int \/ Int2Str \/ EncryptMetadata \/ DecryptMetadata

SpecCodec == InitCodec /\ [][NextCodec]_vars

\* --------------------------------------------------------- the auditor log

Auditors == {WalletAddress, OtherAddress}

\* the contract's setAuditorPublicKey: emits AuditorChanged(old, new) in the
\* block being built; an answer given before holds of the chain as it was
SetAuditor ==
    \E user \in Auditors :
        /\ Len(chain.logs) < MaxLogs
        /\ chain' = [chain EXCEPT !.auditor = user,
                                  !.logs = Append(@, [ oldAuditor |-> chain.auditor,
                                                       newAuditor |-> user,
                                                       blockNumber |-> chain.block ])]
        /\ last' = NoInvocation
        /\ UNCHANGED <<this, rng, ledger, txCount, mints, codec, hook>>

MineBlock ==
    /\ chain.block < MaxBlock
    /\ chain' = [chain EXCEPT !.block = @ + 1]
    /\ last' = NoInvocation
    /\ UNCHANGED <<this, rng, ledger, txCount, mints, codec, hook>>

HasBeenAuditor ==
    /\ last.op = ""
    /\ last' = [NoInvocation EXCEPT
                  !.op = "hasBeenAuditor",
                  !.trace = <<"getBlockNumber", "getLogs">>,
                  !.result = IF hasBeenAuditor(this, chain.logs, chain.block)
                             THEN "true" ELSE "false"]
    /\ UNCHANGED <<this, rng, ledger, txCount, mints, codec, chain, hook>>

NextAuditor == SetAuditor \/ MineBlock \/ HasBeenAuditor

SpecAuditor == Init /\ [][NextAuditor]_vars

\* ------------------------------------------------------- private messages

\* the messages users send and the transactions that carry them
MessageTexts == {<<1>>, <<1, 2>>}
Parties == {<<WalletAddress, OtherAddress>>, <<OtherAddress, WalletAddress>>}

\* a transaction of the contract is included in the block being built; one
\* sent with a message emits PrivateMessage with the message encrypted under
\* the receiver's key
SendTransaction ==
    \E party \in Parties, message \in MessageTexts :
        /\ Len(chain.transactions) < MaxLogs
        /\ chain' = [chain EXCEPT !.transactions = Append(@,
                        [ blockNumber |-> chain.block,
                          emits |-> TRUE,
                          metadata |->
                            [ encryptedMsg |-> encryptMetadata(getUserPublicKey(party[2]), message,
                                                               Draw(Len(chain.transactions))),
                              messageType |-> "TRANSFER",
                              messageFrom |-> party[1],
                              messageTo |-> party[2] ] ])]
        /\ last' = NoInvocation
        /\ UNCHANGED <<this, rng, ledger, txCount, mints, codec, hook>>

\* a transaction sent without a message emits no PrivateMessage
SendPlainTransaction ==
    /\ Len(chain.transactions) < MaxLogs
    /\ chain' = [chain EXCEPT !.transactions = Append(@,
                    [ blockNumber |-> chain.block,
                      emits |-> FALSE,
                      metadata |-> NoMetadata ])]
    /\ last' = NoInvocation
    /\ UNCHANGED <<this, rng, ledger, txCount, mints, codec, hook>>

DecryptMessage ==
    \E transactionHash \in 1..Len(chain.transactions) :
        LET res == decryptMessage(this, chain.transactions, transactionHash)
        IN  /\ last.op = ""
            /\ last' = [NoInvocation EXCEPT
                          !.op = "decryptMessage",
                          !.to = transactionHash,
                          !.trace = <<"getTransaction", "getLogs">>,
                          !.error = res.error,
                          !.metadata = res.metadata]
            /\ UNCHANGED <<this, rng, ledger, txCount, mints, codec, chain, hook>>

NextMessages == SendTransaction \/ SendPlainTransaction \/ MineBlock \/ DecryptMessage

SpecMessages == Init /\ [][NextMessages]_vars

\* -------------------------------------------------- spending through the hook

\* the balance entry the contract returns for the wallet: an ElGamal
\* ciphertext of v and a balancePCT of w, which agree when the entry is
\* consistent
ContractBalance(self, v, w) ==
    [ fetched |-> TRUE, of |-> self.wallet,
      entry |-> [ eGCT |-> encryptMessage(self.publicKey, v, 1),
                  amountPCTs |-> <<>>,
                  balancePCT |-> PCT7(processPoseidonEncryption(<<w>>, self.publicKey, Draw(0))),
                  plain |-> v ] ]

\* the balance the balancePCT of the entry carries beside an ElGamal
\* ciphertext of v: v, or another balance
PCTBalances(v) == {v, (v + 1) % (MaxAmount + 1)}

\* the auditor key the hook holds: not fetched, unset, or set
HookAuditorKeys == {<<>>} \cup AuditorKeys

\* an operation of the hook on the balance state the balance effect made of
\* the contract's entry
HookPrivateBurn ==
    \E v \in Balances : \E w \in PCTBalances(v), amount \in Amounts, aud \in HookAuditorKeys,
       message \in Messages, fault \in Faults :
        LET balanceState == balanceEffect(EmptyBalanceState, ContractBalance(this, v, w),
                                          this, this.wallet)
            res == hookPrivateBurn(this, balanceState, aud, amount, message, fault, rng)
        IN  Record(Invocation("hook.privateBurn", "", amount, balanceState.decrypted, aud,
                              message, fault, res), res)

HookPrivateTransfer ==
    \E v \in Balances : \E w \in PCTBalances(v), to \in Recipients, amount \in Amounts,
       aud \in HookAuditorKeys, message \in Messages, fault \in Faults :
        LET balanceState == balanceEffect(EmptyBalanceState, ContractBalance(this, v, w),
                                          this, this.wallet)
            res == hookPrivateTransfer(this, balanceState, aud,
                                       IF this.isConverter THEN TokenAddress ELSE "",
                                       to, amount, message, fault, rng)
        IN  Record(Invocation("hook.privateTransfer", to, amount, balanceState.decrypted, aud,
                              message, fault, res), res)

HookWithdraw ==
    \E v \in Balances : \E w \in PCTBalances(v), amount \in Amounts, aud \in HookAuditorKeys,
       tokenAddress \in {"", TokenAddress}, message \in Messages, fault \in Faults :
        LET balanceState == balanceEffect(EmptyBalanceState, ContractBalance(this, v, w),
                                          this, this.wallet)
            res == hookWithdraw(this, balanceState, aud, tokenAddress, amount, message,
                                fault, rng)
        IN  Record(Invocation("hook.withdraw", "", amount, balanceState.decrypted, aud,
                              message, fault, res), res)

\* one operation on the state the hook holds
NextHookSpending == HookPrivateBurn \/ HookPrivateTransfer \/ HookWithdraw

SpecHookSpending == Init /\ [][NextHookSpending]_vars

\* ------------------------------------------------- the hooks in a component

\* the balance entry the contract holds for an address, under the key the
\* address registered
BalanceOf(address) ==
    ContractBalance([wallet |-> address, publicKey |-> getUserPublicKey(address)],
                    IF address = WalletAddress THEN 1 ELSE 2,
                    IF address = WalletAddress THEN 1 ELSE 2)

\* a change the application or the user makes
Changed(h) == [h EXCEPT !.changes = @ + 1]

\* the application passes another wallet; wagmi holds no balance for the new
\* arguments of its query yet
ChangeWallet ==
    /\ hook.changes < MaxChanges
    /\ \E wallet \in HookWallets \ {hook.wallet} :
        hook' = [Changed(hook) EXCEPT !.wallet = wallet,
                                      !.contractBalance = NoContractBalance]
    /\ UNCHANGED <<this, rng, last, ledger, txCount, mints, codec, chain>>

\* the application passes another contract address
ChangeContractAddress ==
    /\ hook.changes < MaxChanges
    /\ \E contractAddress \in ContractAddresses \ {hook.contractAddress} :
        hook' = [Changed(hook) EXCEPT !.contractAddress = contractAddress,
                                      !.contractBalance = NoContractBalance]
    /\ UNCHANGED <<this, rng, last, ledger, txCount, mints, codec, chain>>

\* the application passes another decryption key
ChangeDecryptionKey ==
    /\ hook.changes < MaxChanges
    /\ \E decryptionKey \in SuppliedKeys \ {hook.decryptionKey} :
        hook' = [Changed(hook) EXCEPT !.decryptionKey = decryptionKey]
    /\ UNCHANGED <<this, rng, last, ledger, txCount, mints, codec, chain>>

\* the contract data of the current contract address arrives and its effect
\* queues registrarAddress and isConverter
ContractDataFetched ==
    LET contractData == [ registrarAddress |-> registrarOf(hook.contractAddress),
                          isConverter |-> isConverterOf(hook.contractAddress) ]
    IN  /\ hook.contractAddress # ""
        /\ applyPending(hook).registrarAddress # contractData.registrarAddress
        /\ hook' = [hook EXCEPT !.pending.contractData = <<contractData>>]
        /\ UNCHANGED <<this, rng, last, ledger, txCount, mints, codec, chain>>

\* the balance of the current wallet arrives
BalanceFetched ==
    /\ hook.wallet # ""
    /\ hook.contractBalance # BalanceOf(hook.wallet)
    /\ hook' = [hook EXCEPT !.contractBalance = BalanceOf(hook.wallet)]
    /\ UNCHANGED <<this, rng, last, ledger, txCount, mints, codec, chain>>

\* useEERC.generateDecryptionKey up to its await: the instance of this render
\* asks its wallet for the signature
StartGenerateDecryptionKey ==
    /\ hook.changes < MaxChanges
    /\ hook.eerc # NoEERC
    /\ hook.promise = NoPromise
    /\ hook' = [Changed(hook) EXCEPT !.promise = [instance |-> hook.eerc, held |-> TRUE]]
    /\ UNCHANGED <<this, rng, last, ledger, txCount, mints, codec, chain>>

\* useEERC.generateDecryptionKey from its await on: the instance that was
\* asked stores the key, and setGeneratedDecryptionKey queues it
ResolveGenerateDecryptionKey ==
    /\ hook.promise # NoPromise
    /\ \E fault \in {"none", "sign"} :
        LET res == generateDecryptionKey(hook.promise.instance, fault, 0)
        IN  hook' = [hook EXCEPT
                       !.promise = NoPromise,
                       !.eerc = IF hook.promise.held THEN res.self ELSE @,
                       !.pending.generatedDecryptionKey =
                           IF res.error = "" THEN <<res.key>> ELSE @]
    /\ UNCHANGED <<this, rng, last, ledger, txCount, mints, codec, chain>>

\* React renders the component and commits
Render ==
    /\ renderDue(hook)
    /\ hook' = commit(hook)
    /\ UNCHANGED <<this, rng, last, ledger, txCount, mints, codec, chain>>

InitHook ==
    /\ this = NewEERC(WalletAddress, FALSE, Circuits, "k1", FALSE)
    /\ rng = 0
    /\ last = NoInvocation
    /\ ledger = [h \in Holders |-> EmptyBalance]
    /\ txCount = 0
    /\ mints = <<>>
    /\ codec = NoCodec
    /\ chain = NoChain
    /\ hook \in {MountedHook(WalletAddress, "0xc1", decryptionKey) :
                   decryptionKey \in SuppliedKeys}

NextHook ==
    \/ ChangeWallet \/ ChangeContractAddress \/ ChangeDecryptionKey
    \/ ContractDataFetched \/ BalanceFetched
    \/ StartGenerateDecryptionKey \/ ResolveGenerateDecryptionKey
    \/ Render

SpecHook == InitHook /\ [][NextHook]_vars

\* React renders whenever a render is due
SpecHookFair == SpecHook /\ WF_vars(Render)

\* ------------------------------------------------------------------ claims

\* the last invocation performed the external step e
Did(e) == \E i \in 1..Len(last.trace) : last.trace[i] = e

Sending == {"transfer", "withdraw", "privateBurn"}

\* the error of the mode check of the last invocation ("" when it passes)
ModeError ==
    CASE last.op \in {"privateMint", "privateBurn"} -> checkStandalone(this)
      [] last.op \in {"deposit", "withdraw"} -> checkConverter(this)
      [] OTHER -> ""

\* the error of the address check of the last invocation ("" when it passes)
AddressError ==
    IF last.op \in {"privateMint", "transfer"} /\ ~isAddress(last.to)
    THEN "Invalid address!" ELSE ""

\* C1 (as claimed): a sending operation whose amount exceeds the plaintext
\* balance bal >= 0 is rejected before the prover is invoked and before a
\* transaction is submitted (stated for the calls that pass a set auditor
\* key, so that no other check of the call decides the outcome).
C1_OverdraftRejectedBeforeProver ==
    (/\ last.op \in Sending
     /\ last.decryptedBalance >= 0
     /\ last.amount > last.decryptedBalance
     /\ last.auditorPublicKey = AuditorPublicKey)
    => (last.error # "" /\ ~Did("prove") /\ ~Did("simulate") /\ ~Did("write"))

\* C2 (as claimed): every amount v <= 0 is rejected with the invalid-amount
\* error before any key is fetched or ciphertext produced.
C2_NonPositiveAmountIsInvalidAmount ==
    (last.op \in Sending \cup {"privateMint"} /\ last.amount <= 0)
    => (last.error = "Invalid amount!" /\ last.trace = <<>>)

\* C2 (amended): every amount v <= 0 is rejected before any key is fetched,
\* any ciphertext is produced, the prover is invoked or a transaction is
\* submitted; the error is the invalid-amount error unless the mode check or
\* the address check, which run first, reject the call.
C2_NonPositiveAmountRejected ==
    (last.op \in Sending \cup {"privateMint"} /\ last.amount <= 0)
    => /\ last.trace = <<>>
       /\ last.tx = NoTx
       /\ last.error = (IF ModeError # "" THEN ModeError
                        ELSE IF AddressError # "" THEN AddressError
                        ELSE "Invalid amount!")

C2_Witness ==
    /\ last.op \in {"privateMint", "transfer"}
    /\ last.amount <= 0
    /\ last.error = "Invalid amount!"

\* C3: an operation incompatible with the mode of the instance fails with
\* the mode error before any contract read, ciphertext, prover call or
\* submission, whatever its other arguments are.
C3_ModeCheckedFirst ==
    /\ (last.op \in {"privateMint", "privateBurn"} /\ this.isConverter)
         => (last.error = "Not allowed for converter!" /\ last.trace = <<>>
             /\ last.tx = NoTx)
    /\ (last.op \in {"withdraw", "deposit"} /\ ~this.isConverter)
         => (last.error = "Not allowed for stand alone!" /\ last.trace = <<>>
             /\ last.tx = NoTx)

C3_Witness ==
    /\ last.op = "withdraw"
    /\ ~this.isConverter
    /\ last.amount > 0
    /\ last.amount <= last.decryptedBalance
    /\ last.auditorPublicKey = AuditorPublicKey
    /\ last.error = "Not allowed for stand alone!"

\* C4 (as claimed): transfer with an auditor key that is not set fails with
\* the auditor-not-set error, without prover, simulation or submission.
C4_UnsetAuditorIsAuditorError ==
    (last.op = "transfer" /\ last.auditorPublicKey = UnsetKey)
    => /\ last.error = "Auditor is not set for the contract!"
       /\ ~Did("prove") /\ ~Did("simulate") /\ ~Did("write")

\* the steps of transfer that run before the auditor test all pass
TransferReachesAuditorTest ==
    /\ isAddress(last.to)
    /\ validateAmount(last.amount, <<last.decryptedBalance>>) = ""
    /\ (last.fault = "registrar" => last.to = BURN_USER.address)
    /\ (last.fault = "contract" => ~this.isConverter)
    /\ ~(last.message # <<>> /\ EncFails(this, fetchPublicKey(last.to, "none").key))

\* C4 (amended): transfer with an auditor key that is not set fails, and the
\* prover is never invoked and no transaction is simulated or submitted; the
\* error is the auditor-not-set error unless the address check, the amount
\* check, the read of the recipient key or of the token id, or the encryption
\* of the message, which run first, fail.
C4_UnsetAuditorStopsTransfer ==
    (last.op = "transfer" /\ last.auditorPublicKey = UnsetKey)
    => /\ last.error # ""
       /\ ~Did("prove") /\ ~Did("simulate") /\ ~Did("write")
       /\ TransferReachesAuditorTest
            => last.error = "Auditor is not set for the contract!"

C4_Witness ==
    /\ last.op = "transfer"
    /\ last.auditorPublicKey = UnsetKey
    /\ last.to = OtherAddress
    /\ last.error = "Auditor is not set for the contract!"

\* C5 (as claimed): privateMint, withdraw and privateBurn called with an
\* auditor key that is not set reject with the auditor-not-set error before
\* the prover is invoked (the mode, the address and the amount being valid
\* and no read failing).
C5_UnsetAuditorRejectedEverywhere ==
    (/\ last.op \in {"privateMint", "withdraw", "privateBurn"}
     /\ last.auditorPublicKey = UnsetKey
     /\ ModeError = "" /\ AddressError = ""
     /\ validateAmount(last.amount, IF last.op = "privateMint" THEN NoBalance
                                    ELSE <<last.decryptedBalance>>) = ""
     /\ last.fault = "none"
     /\ last.to # UnregisteredAddress)
    => (last.error = "Auditor is not set for the contract!" /\ ~Did("prove"))

SubmittedBalancePCT ==
    CASE last.op = "transfer" -> last.tx.args[4]
      [] last.op = "withdraw" -> last.tx.args[3]
      [] last.op = "privateBurn" -> last.tx.args[2]

\* C7: in every accepted transfer, withdraw and privateBurn the submitted
\* balancePCT decrypts under the sender's own key to bal - v, its authKey and
\* the sender's public key give the shared key of its cipher, and the witness
\* carries SenderBalance = bal.
C7_BalancePCTIsNewBalance ==
    (last.op \in Sending /\ last.error = "")
    => /\ Len(SubmittedBalancePCT) = 7
       /\ decryptPCT(this, SubmittedBalancePCT) = last.decryptedBalance - last.amount
       /\ last.decryptedBalance - last.amount >= 0
       /\ last.witness.SenderBalance = last.decryptedBalance
       /\ last.witness.SenderPublicKey = this.publicKey

C7_Witness ==
    /\ last.op = "transfer"
    /\ last.error = ""
    /\ last.amount = 1
    /\ last.decryptedBalance = 2
    /\ Did("write")

\* C8: after any sequence of accepted operations the ledger has executed
\* in order, calculateTotalBalance on every holder's (EGCT, amountPCTs,
\* balancePCT) is that holder's plaintext ledger balance, never -1.
C8_TotalBalanceIsLedgerBalance ==
    \A h \in Holders :
        /\ TotalBalance(h) = ledger[h].plain
        /\ TotalBalance(h) # -1

\* a holder who has sent and then received: both balancePCT and the queue
\* of amount-PCTs carry a part of the balance
C8_Witness ==
    \E h \in Holders :
        /\ balancePCTIsSet(ledger[h].balancePCT)
        /\ decryptPCT(Holder(h), ledger[h].balancePCT) > 0
        /\ ledger[h].amountPCTs # <<>>
        /\ TotalBalance(h) = ledger[h].plain
        /\ ledger[h].plain = MaxSupply

\* the PCT pct with its plaintext m replaced by the plaintext n
Reencoded(pct, m, n) ==
    [pct EXCEPT ![1] = (pct[1] + SNARK_FIELD_SIZE - m + n) % SNARK_FIELD_SIZE]

\* the triples that differ from the balance entry b of h in the plaintext of
\* exactly one amount-PCT or of balancePCT
Tampered(h, b) ==
    UNION { { [b EXCEPT !.amountPCTs[i].pct =
                    Reencoded(@, decryptPCT(Holder(h), b.amountPCTs[i].pct), n)] :
                n \in (0..MaxSupply) \ {decryptPCT(Holder(h), b.amountPCTs[i].pct)} } :
            i \in 1..Len(b.amountPCTs) }
    \cup
    { [b EXCEPT !.balancePCT = Reencoded(@, decryptPCT(Holder(h), b.balancePCT), n)] :
        n \in IF balancePCTIsSet(b.balancePCT)
              THEN (0..MaxSupply) \ {decryptPCT(Holder(h), b.balancePCT)}
              ELSE {} }
    \cup
    { [b EXCEPT !.balancePCT = ZeroPCT] :
        z \in IF balancePCTIsSet(b.balancePCT)
                 /\ decryptPCT(Holder(h), b.balancePCT) # 0
              THEN {0} ELSE {} }

\* C9 (as claimed): from a consistent triple, a change of the plaintext of
\* one amount-PCT or of balancePCT makes calculateTotalBalance return -1.
C9_TamperedTripleIsInconsistent ==
    \A h \in Holders :
        TotalBalance(h) = ledger[h].plain
        => \A t \in Tampered(h, ledger[h]) :
              calculateTotalBalance(Holder(h), t.eGCT, t.amountPCTs, t.balancePCT) = -1

\* C10: the NullifierHash values of the witnesses of a sequence of
\* privateMint invocations are pairwise distinct.
C10_MintNullifiersDistinct ==
    \A i \in 1..Len(mints), j \in 1..Len(mints) :
        i # j => mints[i].NullifierHash # mints[j].NullifierHash

\* MaxMints mints of the same amount have been handed to the prover
C10_Witness ==
    /\ Len(mints) = MaxMints
    /\ \A i \in 1..Len(mints) : mints[i].to = mints[1].to /\ mints[i].amount = mints[1].amount

\* C11: in every privateMint witness NullifierHash is poseidon5 of the
\* ChainID of the witness followed by the four elements of its AuditorPCT,
\* and not of the receiver's ciphertext.
C11_NullifierIsChainIdThenAuditorPCT ==
    (last.op = "privateMint" /\ last.witness # NoWitness)
    => /\ Len(last.witness.AuditorPCT) = 4
       /\ last.witness.NullifierHash
            = poseidon5(<<last.witness.ChainID>> \o last.witness.AuditorPCT)
       /\ last.witness.NullifierHash
            # poseidon5(<<last.witness.ChainID>> \o last.witness.ReceiverPCT)

C11_Witness ==
    /\ last.op = "privateMint"
    /\ last.error = ""
    /\ Did("prove")
    /\ last.witness.NullifierHash[2] = ChainID

\* the PCT fields cipher, authKey, nonce and random come from one Poseidon
\* encryption of <<v>> under pk
OnePCT(cipher, authKey, nonce, random, pk, v) ==
    /\ cipher = poseidonEncrypt(<<v>>, mulWithScalar(pk, random), nonce)
    /\ authKey = mulWithScalar(Base8, random)

\* C12: in every transfer witness the receiver's EGCT is the encryption of
\* ValueToTransfer under ReceiverPublicKey with ReceiverVTTRandom, the
\* receiver's and the auditor's PCT fields each come from one PCT encryption
\* of ValueToTransfer under the key named beside them, and the sender's EGCT
\* encrypts ValueToTransfer under SenderPublicKey.
C12_TransferWitnessConsistent ==
    (last.op = "transfer" /\ last.witness # NoWitness)
    => LET w == last.witness
       IN  /\ w.ValueToTransfer = last.amount
           /\ [c1 |-> w.ReceiverVTTC1, c2 |-> w.ReceiverVTTC2]
                = encryptMessage(w.ReceiverPublicKey, w.ValueToTransfer,
                                 w.ReceiverVTTRandom)
           /\ OnePCT(w.ReceiverPCT, w.ReceiverPCTAuthKey, w.ReceiverPCTNonce,
                     w.ReceiverPCTRandom, w.ReceiverPublicKey, w.ValueToTransfer)
           /\ OnePCT(w.AuditorPCT, w.AuditorPCTAuthKey, w.AuditorPCTNonce,
                     w.AuditorPCTRandom, w.AuditorPublicKey, w.ValueToTransfer)
           /\ w.AuditorPCTNonce # w.ReceiverPCTNonce
           /\ w.SenderPublicKey = generatePublicKey(w.SenderPrivateKey)
           /\ elGamalDecryption(w.SenderPrivateKey,
                                [c1 |-> w.SenderVTTC1, c2 |-> w.SenderVTTC2])
                = mulWithScalar(Base8, w.ValueToTransfer)

C12_Witness ==
    /\ last.op = "transfer"
    /\ last.error = ""
    /\ last.to = OtherAddress
    /\ last.amount = MaxAmount
    /\ last.witness.ReceiverPublicKey = getUserPublicKey(OtherAddress)

\* C13 (as claimed): a call of register that fails leaves decryptionKey and
\* publicKey of the instance as they were before the call.
C13_FailedRegisterKeepsKeys ==
    [][ (last.op = "" /\ last'.op = "register" /\ last'.error # "")
        => (this'.decryptionKey = this.decryptionKey
            /\ this'.publicKey = this.publicKey) ]_vars

\* the number of times the last invocation performed the external step e
Count(e) == Cardinality({i \in 1..Len(last.trace) : last.trace[i] = e})

\* the position of the first step e in the trace of the last invocation
First(e) == CHOOSE i \in 1..Len(last.trace) :
                last.trace[i] = e /\ \A j \in 1..(i - 1) : last.trace[j] # e

\* the operations that hand a witness to the prover
Proving == {"register", "privateMint", "transfer", "withdraw", "privateBurn"}

\* C14: within one invocation of a proving operation the prover is invoked
\* at most once and a write is submitted at most once; when the prover, the
\* simulation or the submission fails, the invocation ends with an error and
\* that failed step is its last step.
C14_NoRetry ==
    last.op \in Proving
    => /\ Count("prove") <= 1
       /\ Count("simulate") <= 1
       /\ Count("write") <= 1
       /\ \A step \in {"prove", "simulate", "write"} :
            (last.fault = step /\ Did(step))
            => /\ last.error # ""
               /\ last.tx = NoTx
               /\ last.trace[Len(last.trace)] = step

C14_Witness ==
    /\ last.op = "withdraw"
    /\ last.fault = "write"
    /\ Did("write")
    /\ last.error = "WriteFailed"

\* C15: a proving operation writes to the contract only after the prover has
\* returned a proof and the simulation of the call has succeeded; an
\* invocation that failed before the prover call has written nothing.
C15_WriteAfterProofAndSimulation ==
    last.op \in Proving
    => /\ Did("write")
            => /\ Did("prove") /\ Did("simulate")
               /\ First("prove") < First("simulate")
               /\ First("simulate") < First("write")
               /\ last.fault \notin {"prove", "simulate"}
               /\ ProverAccepts(last.witness)
       /\ ~Did("prove") => (~Did("simulate") /\ ~Did("write") /\ last.tx = NoTx)

C15_Witness ==
    /\ last.op = "register"
    /\ last.error = ""
    /\ Did("write")
    /\ last.tx.functionName = "register"

\* C19: every privateBurn submission, with or without a message, passes as
\* its second argument the 7-field balancePCT the invocation produced with
\* its last draw: the cipher of the new balance under the sender's key, the
\* authKey and the nonce.
C19_BurnSubmitsBalancePCT ==
    (last.op = "privateBurn" /\ last.tx # NoTx)
    => LET args == last.tx.args
           d == Draw(rng - 1)
       IN  /\ last.tx.functionName = "privateBurn"
           /\ Len(args) = (IF last.message # <<>> THEN 3 ELSE 2)
           /\ args[1] = <<"proof", "BURN">>
           /\ Len(args[2]) = 7
           /\ SubSeq(args[2], 1, 4)
                = poseidonEncrypt(<<last.decryptedBalance - last.amount>>,
                                  mulWithScalar(this.publicKey, d.random), d.nonce)
           /\ SubSeq(args[2], 5, 6) = mulWithScalar(Base8, d.random)
           /\ args[2][7] = d.nonce

C19_Witness ==
    /\ last.op = "privateBurn"
    /\ last.error = ""
    /\ last.message # <<>>
    /\ Len(last.tx.args) = 3
    /\ Did("write")

\* 10 to the power n
Pow10(n) == IF n = 0 THEN 1 ELSE IF n = 1 THEN 10 ELSE 100

\* C20: deposit never invokes the prover; what it submits is the unscaled
\* amount and a PCT under the depositor's key whose plaintext q is the
\* amount scaled from the token's decimals to the encrypted token's: the
\* floor of the quotient when scaling down, the product when scaling up, the
\* amount when equal; a remainder makes no difference to the outcome.
C20_DepositScalesAmount ==
    last.op = "deposit"
    => /\ ~Did("prove")
       /\ last.witness = NoWitness
       /\ last.error \in {"", "Not allowed for stand alone!", "ReadFailed",
                          "Insufficient approval amount!", "SimulationFailed",
                          "WriteFailed"}
       /\ last.tx # NoTx
            => LET q == decryptPCT(this, last.tx.args[3])
                   dToken == last.decimals
               IN  /\ last.tx.args[1] = last.amount
                   /\ Len(last.tx.args[3]) = 7
                   /\ dToken > EERCDecimals
                        => /\ q * Pow10(dToken - EERCDecimals) <= last.amount
                           /\ last.amount < (q + 1) * Pow10(dToken - EERCDecimals)
                   /\ dToken < EERCDecimals
                        => q = last.amount * Pow10(EERCDecimals - dToken)
                   /\ dToken = EERCDecimals => q = last.amount

\* a deposit of 12 units of a token with one decimal more: 1 is encrypted,
\* the remainder 2 is dropped
C20_Witness ==
    /\ last.op = "deposit"
    /\ last.error = ""
    /\ last.decimals = EERCDecimals + 1
    /\ last.amount = 10 + MaxAmount
    /\ decryptPCT(this, last.tx.args[3]) = 1
    /\ Did("write")

\* strings whose first and last characters are not U+0000: str2int makes no
\* difference between them and a shorter string
NULOnlyInside(str) == str = <<>> \/ (str[1] # NUL /\ str[Len(str)] # NUL)

\* C16: a string without U+0000 at its end (nor, here, at its start),
\* whatever it has elsewhere, is what int2str makes of the chunks str2int
\* made of it.
C16_Int2StrOfStr2IntIsIdentity ==
    (codec.trace = <<"str2int", "int2str">> /\ NULOnlyInside(codec.input))
    => codec.value = codec.input

\* C17: an array of one or more chunks below the chunk size (here: one that
\* str2int makes of some such string) is what str2int makes of the string
\* int2str made of it.
C17_Str2IntOfInt2StrIsIdentity ==
    /\ codec.trace = <<"int2str", "str2int">>
    /\ codec.input \in ChunkArrays
    /\ \E str \in Strings : NULOnlyInside(str) /\ str2int(str) = codec.input
    => codec.value = codec.input

\* C18: under a key pair with pk = sk * Base8, decryptMetadata reads the
\* words where encryptMetadata wrote them and gives back the string that was
\* encrypted (here: one without U+0000 at its start or end), the empty
\* string included.
C18_DecryptOfEncryptIsIdentity ==
    (codec.trace = <<"encryptMetadata", "decryptMetadata">> /\ NULOnlyInside(codec.input))
    => codec.value = codec.input

\* the public keys of key pairs: sk * Base8 for a scalar sk of the subgroup
\* other than 0 (what a registration stores)
UserKeys == {generatePublicKey(sk) : sk \in 1..(SUB_GROUP_ORDER - 1)}

\* C21: when the registrar already holds a public key for the wallet,
\* register invokes no prover and simulates and submits no transaction; once
\* the wallet has signed and the registrar has answered, it returns the
\* derived key with an empty transaction hash.
C21_RegisteredWalletRegistersNothing ==
    (last.op = "register" /\ last.auditorPublicKey \in UserKeys)
    => /\ ~Did("prove") /\ ~Did("simulate") /\ ~Did("write")
       /\ last.tx = NoTx
       /\ last.fault \notin {"sign", "registrar"}
            => /\ last.error = ""
               /\ last.key = getPrivateKeyFromSignature(this.wallet)
               /\ this.decryptionKey = last.key

C21_Witness ==
    /\ last.op = "register"
    /\ last.auditorPublicKey \in UserKeys
    /\ last.error = ""
    /\ last.key = "k1"
    /\ last.tx = NoTx
    /\ Did("getUserPublicKey")

\* the logs in the window hasBeenAuditor scans: the last BOUND blocks, or all
\* blocks when the chain is not longer
InWindow ==
    getLogs(chain.logs, IF chain.block > BOUND THEN chain.block - BOUND ELSE 0, chain.block)

NamesWallet(log) == log.oldAuditor = this.wallet \/ log.newAuditor = this.wallet

\* C22: hasBeenAuditor returns true when some AuditorChanged log of the
\* scanned window names the wallet as oldAuditor or as newAuditor, and false
\* when none does.
C22_HasBeenAuditorIffNamed ==
    last.op = "hasBeenAuditor"
    => (last.result = "true" <=> \E i \in 1..Len(InWindow) : NamesWallet(InWindow[i]))

\* C23: decryptMessage(transactionHash) returns the messageFrom, messageTo
\* and messageType of the PrivateMessage log of the transaction with that
\* hash and the decryption of its message, whatever other transactions the
\* block holds.
C23_DecryptsMessageOfTransaction ==
    (last.op = "decryptMessage" /\ chain.transactions[last.to].emits)
    => LET metadata == chain.transactions[last.to].metadata
       IN  /\ last.error = ""
           /\ last.metadata.messageFrom = metadata.messageFrom
           /\ last.metadata.messageTo = metadata.messageTo
           /\ last.metadata.messageType = metadata.messageType
           /\ last.metadata.decryptedMessage
                = decryptMetadata(formatKeyForCurve(this.decryptionKey), metadata.encryptedMsg)

\* C28: for the key the registrar returns for the wallet, (0, 1) included,
\* the already-registered test of register, the isRegistered flag of the
\* hook, isAddressRegistered and the receiver test of generateTransferProof
\* give the same answer.
C28_RegistrationTestsAgree ==
    last.op = "register"
    => LET key == last.auditorPublicKey
       IN  /\ alreadyRegistered(key) = isRegistered(key)
           /\ alreadyRegistered(key) = isAddressRegistered(key)
           /\ alreadyRegistered(key) = ~receiverNotRegistered(key)

\* get isDecryptionKeySet(): !!this.decryptionKey
isDecryptionKeySet(self) == self.decryptionKey # ""

\* C30: whatever constructions, generateDecryptionKey and register calls the
\* instance has seen and however they ended, isDecryptionKeySet is true
\* exactly when publicKey is not empty, and publicKey is the public key of
\* the decryption key held.
C30_PublicKeyIsOfDecryptionKey ==
    /\ isDecryptionKeySet(this) <=> this.publicKey # <<>>
    /\ isDecryptionKeySet(this)
         => this.publicKey = generatePublicKey(formatKeyForCurve(this.decryptionKey))

\* a register that failed after it had replaced the key of another wallet
C30_Witness ==
    /\ last.op = "register"
    /\ last.error # ""
    /\ Did("signMessage")
    /\ this.decryptionKey = "k1"
    /\ this.publicKey = generatePublicKey(formatKeyForCurve("k1"))

\* the sentinel calculateTotalBalance returns for an inconsistent balance
INCONSISTENT == -1

HookSpending == {"hook.privateBurn", "hook.privateTransfer", "hook.withdraw"}

\* C29: while the balance the hook holds is the sentinel -1, every
\* privateTransfer, privateBurn and withdraw issued through the hook, with
\* any amount, is rejected before the prover is invoked and nothing is
\* simulated or submitted.
C29_SentinelIsNeverSpent ==
    (last.op \in HookSpending /\ last.decryptedBalance = INCONSISTENT)
    => /\ last.error # ""
       /\ ~Did("prove") /\ ~Did("simulate") /\ ~Did("write")
       /\ last.tx = NoTx

\* a withdraw of a positive amount that passed the hook's own tests and was
\* rejected by the instance
C29_Witness ==
    /\ last.op = "hook.withdraw"
    /\ last.decryptedBalance = INCONSISTENT
    /\ last.amount > 0
    /\ last.isConverter
    /\ last.error = "Insufficient balance!"


\* ---- the hooks

\* nothing is queued and no effect has a changed dependency
Settled == ~renderDue(hook)

\* C24: once the hooks have settled with the balance of the current wallet
\* fetched, the balance useEncryptedBalance exposes is the initial one or one
\* computed for the current wallet address
C24_BalanceIsOfCurrentWallet ==
    (Settled /\ hook.contractBalance.fetched)
    => hook.balanceState.of \in {"", hook.wallet}

\* the keys generateDecryptionKey derives from the signature of an account
GeneratedKeys == {getPrivateKeyFromSignature(a) : a \in HookWallets \ {""}}

\* C25: an instance useEERC constructs with a key generated from a signature
\* is constructed for the wallet address that signed
C25_KeyIsOfInstanceWallet ==
    \A u \in {hook.pending.eerc, <<hook.eerc>>} :
        (u # <<>> /\ u[1] # NoEERC /\ u[1].args.decryptionKey \in GeneratedKeys)
        => u[1].args.decryptionKey = getPrivateKeyFromSignature(u[1].args.wallet)

\* C26: in a settled state isInitialized is true exactly when the hook holds
\* an instance, and the instance was constructed from the current wallet,
\* contract address, registrar address, isConverter flag and decryption key
C26_SettledInstanceIsCurrent ==
    Settled => /\ hook.isInitialized <=> hook.eerc # NoEERC
               /\ hook.eerc # NoEERC => hook.eerc.args = currentArgs(hook)

\* client, wallet account, contract address and registrar address are present
Prerequisites ==
    hook.wallet # "" /\ hook.contractAddress # "" /\ hook.registrarAddress # ""

\* the hook is initialized with an instance built from the current values
Rebuilt ==
    hook.isInitialized /\ hook.eerc # NoEERC /\ hook.eerc.args = currentArgs(hook)

====
